---- MODULE Spec2Model ----
(***************************************************************************)
(* A model of the next_gen server framework: the message queues, the       *)
(* service runtime and the timer scheduler.  Each subsystem has its own    *)
(* variables and its own specification (SpecMPMC, ...); a specification    *)
(* leaves the other subsystems' variables unchanged.                       *)
(***************************************************************************)
EXTENDS Integers, Sequences, FiniteSets, TLC

(***************************************************************************)
(* Bounds of the model.                                                    *)
(***************************************************************************)
NumProducers == 2
NumConsumers == 2
PushesPerProducer == 2
MaxCapacity == 2
DQProducers == 2
DQConsumers == 2
DQMaxMsgs == 3
DQMaxSize == 1
SVMaxMsgs == 2
MaxTimers == 2
MaxGroups == 1
MaxTime == 2
MaxDelay == 2
MaxInterval == 1
MaxGroupLen == 2
MaxModifies == 1
LFMaxCapacity == 2
LFMaxMsgs == 4
PQMaxMsgs == 3
PQMaxCategory == 3
PQMaxSize == 2
TSSenderThreads == 2
TSMaxSends == 3
TSMaxPeerFrames == 2
TSMaxBodyLen == 2
TSMaxReadBuffer == 1
NSMaxCloses == 3
NSIdleTimeoutMs == 500
NSMaxIdleTime == 1500
MDCallers == 2
MDMaxCalls == 3
UDMaxDatagrams == 4
TCMaxMessages == 4
SQCapacity == 2
SQMaxMsgs == 3
SQMaxPops == 4
CBMaxSessions == 2
ACMaxIoThreads == 2
ACMaxSessions == 2
ACMaxMessages == 1

(* nullptr *)
NoMsg == 0

VARIABLES
    \* ---- MPMCMessageQueue (src/include/utils/timer.h:871-933) ----
    mp_capacity,     \* capacity_
    mp_sequence,     \* buffer_[i].sequence
    mp_data,         \* buffer_[i].data
    mp_enqueue_pos,  \* enqueue_pos_
    mp_dequeue_pos,  \* dequeue_pos_
    mp_pc,           \* position of each producer / consumer thread in push / tryPop
    mp_pos,          \* local `pos` of each thread
    mp_msg,          \* message a producer is pushing / message a consumer read
    mp_pushed,       \* per producer: number of push calls begun
    mp_pushDone,     \* messages whose push has returned
    mp_retCount,     \* per message (and nullptr after a won CAS): times returned by tryPop
    \* ---- DefaultMessageQueue (src/include/utils/timer.h:716-759) ----
    dq_max_size,     \* max_size_ (0: unbounded)
    dq_queue,        \* queue_
    dq_shutdown,     \* shutdown_
    dq_waitNotFull,  \* threads blocked in not_full_.wait
    dq_waitNotEmpty, \* threads blocked in not_empty_.wait / wait_for
    dq_pc,           \* position of each producer / consumer thread
    dq_msg,          \* message a producer is pushing / a consumer has taken
    dq_nextMsg,      \* next fresh message
    dq_returned,     \* messages taken by pop operations, in the order taken
    dq_dropped,      \* messages whose push returned without enqueueing
    dq_cleared,      \* messages discarded by clear()
    dq_pushDone,     \* messages whose push has returned
    dq_begunBefore,  \* messages whose push was called while shutdown_ was false
    dq_before,       \* per message: the messages whose push had returned when its push was called
    \* ---- BaseService (src/include/core/service.h:65-356) ----
    sv_running,      \* running_
    sv_queue,        \* message_queue_: queue_ of the DefaultMessageQueue
    sv_qshutdown,    \* message_queue_: shutdown_
    sv_worker,       \* position of the worker thread in run()
    sv_wmsg,         \* message the worker has popped
    sv_joinable,     \* worker_thread_.joinable()
    sv_crashed,      \* std::terminate was called
    sv_ctl,          \* position of the controlling thread in init() / start() / stop()
    sv_ctlResult,    \* what the last init() / start() / stop() returned
    sv_inited,       \* init() has returned success
    sv_post,         \* position of the posting thread in postMessage()
    sv_pmsg,         \* message being posted
    sv_nextMsg,      \* next fresh message
    sv_result,       \* per message: what postMessage returned
    sv_handled,      \* messages passed to onMessage
    sv_stopReturned, \* a stop() has returned success
    sv_afterStop,    \* messages whose postMessage was called after that
    \* ---- TimerManager (src/src/utils/timer.cpp:9-388) ----
    tm_clock,        \* the monotonic clock read by getCurrentTimeMillis()
    tm_tasks,        \* tasks_: TimerId -> [next_run, interval, repeat]
    tm_queue,        \* queue_: the TimerTask copies in the priority queue
    tm_groups,       \* groups_: TimerGroupId -> vector of TimerId
    tm_timer_to_group, \* timer_to_group_
    tm_next_id,      \* next_id_
    tm_next_group_id, \* next_group_id_
    tm_modifies,     \* calls of modify() that returned true
    tm_pc,           \* position of the worker thread in run()
    tm_task,         \* the worker's local copy "task"
    tm_now,          \* the worker's local "now"
    tm_carried,      \* next_run the dequeued task had when it was popped
    tm_everRepeat,   \* timers created or modified with repeat = true
    tm_fireCount,    \* per timer never set to repeat: callback invocations (saturating at 2)
    tm_cancelled,    \* timers for which cancel(id) returned true
    tm_groupCancelled, \* timers that were members of a group when cancelGroup ran
    tm_lateStart,    \* per timer: callbacks started after its cancellation (saturating at 2)
    tm_lateDequeue,  \* timers dequeued for firing after their cancellation
    tm_cgLost,       \* timers erased by cancelGroup that were not members
    tm_resched,      \* the re-insertion of the repeating task being fired
    tm_prevRun,      \* next_run carried by the callback invoked before the last
    tm_lastRun,      \* next_run carried by the last callback invoked
    tm_emptied       \* groups left empty by the removal of their last member

VARIABLES
    lf_capacity,     \* LockFreeMessageQueue::capacity_
    lf_buffer,       \* buffer_[0..capacity_]
    lf_head,         \* head_
    lf_tail,         \* tail_
    lf_shutdown,     \* shutdown_
    lf_ppc,          \* where the producer thread is in push
    lf_phead,        \* push's local head
    lf_ptail,        \* push's local tail
    lf_pmsg,         \* push's raw_msg
    lf_cpc,          \* where the consumer thread is in tryPop
    lf_chead,        \* tryPop's local head
    lf_ctail,        \* tryPop's local tail
    lf_cmsg,         \* tryPop's local msg
    lf_nextMsg,      \* the next message the producer will push
    lf_stored,       \* how many pushes have stored their message and tail_
    lf_returned      \* the messages returned by tryPop, in order

VARIABLES
    pq_max_size,     \* PriorityMessageQueue::max_size_ (0 = unbounded)
    pq_queue,        \* queue_: the messages in the heap
    pq_priority,     \* the priority stored with each message in queue_
    pq_shutdown,     \* shutdown_
    pq_nextMsg,      \* the next message to be pushed
    pq_returned,     \* the messages returned by the pop operations, in order
    pq_present       \* per message, the messages queued when it was enqueued

VARIABLES
    ts_read_buffer_size, \* config.read_buffer_size of the session's service
    ts_state,        \* TcpSession::state_
    ts_started,      \* start() has been called
    ts_write_queue,  \* write_queue_: the frames (number and bytes) to write
    ts_writing,      \* the number of async_write operations outstanding
    ts_spc,          \* where each thread calling send() is
    ts_sbuf,         \* send()'s local buffer, with the number of the call
    ts_nextSend,     \* the number of the next send() call
    ts_enqueued,     \* the frames in the order send() pushed them
    ts_handed,       \* the frames in the order async_write was given them
    ts_in,           \* the bytes the peer has sent that are not yet read
    ts_peerFrames,   \* what the peer has sent: (category, id, body) per frame
    ts_reading,      \* the async_read outstanding: "none", "header", "body"
    ts_read_buffer,  \* read_buffer_
    ts_decoded,      \* the header fields and body extracted from each frame
    ts_delivered,    \* the messages passed to handleReceivedMessageById
    ts_errors        \* the error codes passed to handleSessionErrorById

mpVars == <<mp_capacity, mp_sequence, mp_data, mp_enqueue_pos, mp_dequeue_pos,
            mp_pc, mp_pos, mp_msg, mp_pushed, mp_pushDone, mp_retCount>>

dqVars == <<dq_max_size, dq_queue, dq_shutdown, dq_waitNotFull, dq_waitNotEmpty,
            dq_pc, dq_msg, dq_nextMsg, dq_returned, dq_dropped,
            dq_cleared, dq_pushDone, dq_begunBefore, dq_before>>

svVars == <<sv_running, sv_queue, sv_qshutdown, sv_worker, sv_wmsg, sv_joinable,
            sv_crashed, sv_ctl, sv_ctlResult, sv_inited, sv_post, sv_pmsg,
            sv_nextMsg, sv_result, sv_handled, sv_stopReturned, sv_afterStop>>

tmVars == <<tm_clock, tm_tasks, tm_queue, tm_groups, tm_timer_to_group,
            tm_next_id, tm_next_group_id, tm_modifies, tm_pc, tm_task, tm_now, tm_carried,
            tm_everRepeat, tm_fireCount, tm_cancelled, tm_groupCancelled,
            tm_lateStart, tm_lateDequeue, tm_cgLost, tm_resched, tm_prevRun,
            tm_lastRun, tm_emptied>>

lfVars == <<lf_capacity, lf_buffer, lf_head, lf_tail, lf_shutdown, lf_ppc,
            lf_phead, lf_ptail, lf_pmsg, lf_cpc, lf_chead, lf_ctail, lf_cmsg,
            lf_nextMsg, lf_stored, lf_returned>>

pqVars == <<pq_max_size, pq_queue, pq_priority, pq_shutdown, pq_nextMsg,
            pq_returned, pq_present>>

tsVars == <<ts_read_buffer_size, ts_state, ts_started, ts_write_queue,
            ts_writing, ts_spc, ts_sbuf, ts_nextSend, ts_enqueued, ts_handed,
            ts_in, ts_peerFrames, ts_reading, ts_read_buffer, ts_decoded,
            ts_delivered, ts_errors>>

(* NetService with one registered TcpSession: the session table, the      *)
(* session's state and idle time, the threads inside close() and the      *)
(* worker's idle sweep, and the SessionHandler events                     *)
VARIABLES ns_idle_timeout_ms, ns_state, ns_sessions, ns_idle_time, ns_pc,
          ns_idle_sessions, ns_events, ns_closes, ns_results,
          ns_last_update_time

nsVars == <<ns_idle_timeout_ms, ns_state, ns_sessions, ns_idle_time, ns_pc,
            ns_idle_sessions, ns_events, ns_closes, ns_results,
            ns_last_update_time>>

(* BaseService registries: the message handler table and the modules *)
VARIABLES sx_handlers, sx_hresult, sx_modules, sx_reg

sxVars == <<sx_handlers, sx_hresult, sx_modules, sx_reg>>

(* ModuleDependencyManager: the dependency lists, the modules registered  *)
(* with the service, and the threads inside Module::addDependency         *)
VARIABLES md_registered, md_dependencies, md_pc, md_arg, md_result, md_calls

mdVars == <<md_registered, md_dependencies, md_pc, md_arg, md_result, md_calls>>

(* UdpService: the session table, the endpoint map, the id generator, the *)
(* sessions idle for longer than session_timeout_ms, and the events        *)
VARIABLES ud_sessions, ud_endpoint_to_session, ud_next_session_id, ud_idle,
          ud_datagrams, ud_last, ud_on_created, ud_on_closed

udVars == <<ud_sessions, ud_endpoint_to_session, ud_next_session_id, ud_idle,
            ud_datagrams, ud_last, ud_on_created, ud_on_closed>>

(* TcpService statistics with one connected session whose handler may echo *)
VARIABLES tc_state, tc_in, tc_client_sent, tc_total_messages_received,
          tc_total_messages_sent, tc_on_message_received, tc_write_queue,
          tc_writes_completed, tc_echoed

tcVars == <<tc_state, tc_in, tc_client_sent, tc_total_messages_received,
            tc_total_messages_sent, tc_on_message_received, tc_write_queue,
            tc_writes_completed, tc_echoed>>

(* the LockFreeMessageQueue of src/unnamed/part_004 *)
VARIABLES sq_queue, sq_shutdown, sq_nextMsg, sq_pops, sq_last

sqVars == <<sq_queue, sq_shutdown, sq_nextMsg, sq_pops, sq_last>>

(* NetService: the session-table mutex and the SessionHandler callbacks *)
VARIABLES cb_state, cb_sessions, cb_mutex, cb_stack, cb_fault

cbVars == <<cb_state, cb_sessions, cb_mutex, cb_stack, cb_fault>>

(* TcpService: accepting connections on the reactor threads *)
VARIABLES ac_io_thread_count, ac_accepting, ac_state, ac_reading, ac_sessions,
          ac_in, ac_eof, ac_sent, ac_events

acVars == <<ac_io_thread_count, ac_accepting, ac_state, ac_reading, ac_sessions,
            ac_in, ac_eof, ac_sent, ac_events>>

vars == <<mpVars, dqVars, svVars, tmVars, lfVars, pqVars, tsVars, nsVars, sxVars, mdVars, udVars, tcVars, sqVars, cbVars, acVars>>

(* What the actions of one subsystem leave unchanged. *)
notMP == <<dqVars, svVars, tmVars, lfVars, pqVars, tsVars, nsVars, sxVars, mdVars, udVars, tcVars, sqVars, cbVars, acVars>>
notDQ == <<mpVars, svVars, tmVars, lfVars, pqVars, tsVars, nsVars, sxVars, mdVars, udVars, tcVars, sqVars, cbVars, acVars>>
notSV == <<mpVars, dqVars, tmVars, lfVars, pqVars, tsVars, nsVars, sxVars, mdVars, udVars, tcVars, sqVars, cbVars, acVars>>
notTM == <<mpVars, dqVars, svVars, lfVars, pqVars, tsVars, nsVars, sxVars, mdVars, udVars, tcVars, sqVars, cbVars, acVars>>
notLF == <<mpVars, dqVars, svVars, tmVars, pqVars, tsVars, nsVars, sxVars, mdVars, udVars, tcVars, sqVars, cbVars, acVars>>
notPQ == <<mpVars, dqVars, svVars, tmVars, lfVars, tsVars, nsVars, sxVars, mdVars, udVars, tcVars, sqVars, cbVars, acVars>>
notTS == <<mpVars, dqVars, svVars, tmVars, lfVars, pqVars, nsVars, sxVars, mdVars, udVars, tcVars, sqVars, cbVars, acVars>>
notNS == <<mpVars, dqVars, svVars, tmVars, lfVars, pqVars, tsVars, sxVars, mdVars, udVars, tcVars, sqVars, cbVars, acVars>>
notSX == <<mpVars, dqVars, svVars, tmVars, lfVars, pqVars, tsVars, nsVars, mdVars, udVars, tcVars, sqVars, cbVars, acVars>>
notMD == <<mpVars, dqVars, svVars, tmVars, lfVars, pqVars, tsVars, nsVars, sxVars, udVars, tcVars, sqVars, cbVars, acVars>>
notUD == <<mpVars, dqVars, svVars, tmVars, lfVars, pqVars, tsVars, nsVars, sxVars, mdVars, tcVars, sqVars, cbVars, acVars>>
notTC == <<mpVars, dqVars, svVars, tmVars, lfVars, pqVars, tsVars, nsVars, sxVars, mdVars, udVars, sqVars, cbVars, acVars>>
notSQ == <<mpVars, dqVars, svVars, tmVars, lfVars, pqVars, tsVars, nsVars, sxVars, mdVars, udVars, tcVars, cbVars, acVars>>
notCB == <<mpVars, dqVars, svVars, tmVars, lfVars, pqVars, tsVars, nsVars, sxVars, mdVars, udVars, tcVars, sqVars, acVars>>
notAC == <<mpVars, dqVars, svVars, tmVars, lfVars, pqVars, tsVars, nsVars, sxVars, mdVars, udVars, tcVars, sqVars, cbVars>>

(***************************************************************************)
(* MPMCMessageQueue: Vyukov bounded queue with per-cell sequence numbers.  *)
(* Every load, store and CAS of an atomic is one step.  shutdown() and     *)
(* clear() are not called in this scenario, so isShutdown() is false.      *)
(***************************************************************************)
Producers == 1..NumProducers
Consumers == (NumProducers + 1)..(NumProducers + NumConsumers)
MPThreads == Producers \cup Consumers
MPMsgs == 1..(NumProducers * PushesPerProducer)

(* The k-th message of producer p (distinct integers, as in the example's  *)
(* value = producerId * messagesPerProducer + i).                          *)
MPMessageOf(p, k) == (p - 1) * PushesPerProducer + k

MPCell(pos) == pos % mp_capacity

MPInit ==
    /\ mp_capacity \in 1..MaxCapacity
    /\ mp_sequence = [i \in 0..(mp_capacity - 1) |-> i]
    /\ mp_data = [i \in 0..(mp_capacity - 1) |-> NoMsg]
    /\ mp_enqueue_pos = 0
    /\ mp_dequeue_pos = 0
    /\ mp_pc = [t \in MPThreads |-> "idle"]
    /\ mp_pos = [t \in MPThreads |-> 0]
    /\ mp_msg = [t \in MPThreads |-> NoMsg]
    /\ mp_pushed = [p \in Producers |-> 0]
    /\ mp_pushDone = {}
    /\ mp_retCount = [m \in {NoMsg} \cup MPMsgs |-> 0]

(* push(message) is called: isShutdown() is false, enter the loop. *)
MPPushCall(p) ==
    /\ mp_pc[p] = "idle"
    /\ mp_pushed[p] < PushesPerProducer
    /\ mp_pushed' = [mp_pushed EXCEPT ![p] = @ + 1]
    /\ mp_msg' = [mp_msg EXCEPT ![p] = MPMessageOf(p, mp_pushed[p] + 1)]
    /\ mp_pc' = [mp_pc EXCEPT ![p] = "push_load_pos"]
    /\ UNCHANGED notMP
    /\ UNCHANGED <<mp_capacity, mp_sequence, mp_data, mp_enqueue_pos,
                   mp_dequeue_pos, mp_pos, mp_pushDone, mp_retCount>>

(* pos = enqueue_pos_.load() *)
MPPushLoadPos(p) ==
    /\ mp_pc[p] = "push_load_pos"
    /\ mp_pos' = [mp_pos EXCEPT ![p] = mp_enqueue_pos]
    /\ mp_pc' = [mp_pc EXCEPT ![p] = "push_load_seq"]
    /\ UNCHANGED notMP
    /\ UNCHANGED <<mp_capacity, mp_sequence, mp_data, mp_enqueue_pos,
                   mp_dequeue_pos, mp_msg, mp_pushed, mp_pushDone, mp_retCount>>

(* seq = cell->sequence.load(); diff = seq - pos; diff == 0 goes to the    *)
(* CAS, diff < 0 (full) and diff > 0 yield and retry.                      *)
MPPushLoadSeq(p) ==
    /\ mp_pc[p] = "push_load_seq"
    /\ LET diff == mp_sequence[MPCell(mp_pos[p])] - mp_pos[p]
       IN mp_pc' = [mp_pc EXCEPT ![p] =
                       IF diff = 0 THEN "push_cas" ELSE "push_load_pos"]
    /\ UNCHANGED notMP
    /\ UNCHANGED <<mp_capacity, mp_sequence, mp_data, mp_enqueue_pos,
                   mp_dequeue_pos, mp_pos, mp_msg, mp_pushed, mp_pushDone,
                   mp_retCount>>

(* enqueue_pos_.compare_exchange_weak(pos, pos + 1): success reserves the  *)
(* cell; failure (another producer moved enqueue_pos_, or a spurious       *)
(* failure of the weak CAS) retries the loop.                              *)
MPPushCas(p) ==
    /\ mp_pc[p] = "push_cas"
    /\ \/ /\ mp_enqueue_pos = mp_pos[p]
          /\ mp_enqueue_pos' = mp_pos[p] + 1
          /\ mp_pc' = [mp_pc EXCEPT ![p] = "push_store_data"]
       \/ /\ mp_enqueue_pos' = mp_enqueue_pos
          /\ mp_pc' = [mp_pc EXCEPT ![p] = "push_load_pos"]
    /\ UNCHANGED notMP
    /\ UNCHANGED <<mp_capacity, mp_sequence, mp_data, mp_dequeue_pos, mp_pos,
                   mp_msg, mp_pushed, mp_pushDone, mp_retCount>>

(* cell->data = message.release() *)
MPPushStoreData(p) ==
    /\ mp_pc[p] = "push_store_data"
    /\ mp_data' = [mp_data EXCEPT ![MPCell(mp_pos[p])] = mp_msg[p]]
    /\ mp_pc' = [mp_pc EXCEPT ![p] = "push_store_seq"]
    /\ UNCHANGED notMP
    /\ UNCHANGED <<mp_capacity, mp_sequence, mp_enqueue_pos, mp_dequeue_pos,
                   mp_pos, mp_msg, mp_pushed, mp_pushDone, mp_retCount>>

(* cell->sequence.store(pos + 1); push returns. *)
MPPushStoreSeq(p) ==
    /\ mp_pc[p] = "push_store_seq"
    /\ mp_sequence' = [mp_sequence EXCEPT ![MPCell(mp_pos[p])] = mp_pos[p] + 1]
    /\ mp_pushDone' = mp_pushDone \cup {mp_msg[p]}
    /\ mp_msg' = [mp_msg EXCEPT ![p] = NoMsg]
    /\ mp_pc' = [mp_pc EXCEPT ![p] = "idle"]
    /\ UNCHANGED notMP
    /\ UNCHANGED <<mp_capacity, mp_data, mp_enqueue_pos, mp_dequeue_pos,
                   mp_pos, mp_pushed, mp_retCount>>

(* tryPop() is called (directly, or from the loop of pop()). *)
MPTryPopCall(c) ==
    /\ mp_pc[c] = "idle"
    /\ mp_pc' = [mp_pc EXCEPT ![c] = "pop_load_pos"]
    /\ UNCHANGED notMP
    /\ UNCHANGED <<mp_capacity, mp_sequence, mp_data, mp_enqueue_pos,
                   mp_dequeue_pos, mp_pos, mp_msg, mp_pushed, mp_pushDone,
                   mp_retCount>>

(* pos = dequeue_pos_.load() *)
MPPopLoadPos(c) ==
    /\ mp_pc[c] = "pop_load_pos"
    /\ mp_pos' = [mp_pos EXCEPT ![c] = mp_dequeue_pos]
    /\ mp_pc' = [mp_pc EXCEPT ![c] = "pop_load_seq"]
    /\ UNCHANGED notMP
    /\ UNCHANGED <<mp_capacity, mp_sequence, mp_data, mp_enqueue_pos,
                   mp_dequeue_pos, mp_msg, mp_pushed, mp_pushDone, mp_retCount>>

(* seq = cell->sequence.load(); diff = seq - (pos + 1); diff == 0 goes to  *)
(* the CAS, diff < 0 returns nullptr (empty), diff > 0 yields and retries. *)
MPPopLoadSeq(c) ==
    /\ mp_pc[c] = "pop_load_seq"
    /\ LET diff == mp_sequence[MPCell(mp_pos[c])] - (mp_pos[c] + 1)
       IN mp_pc' = [mp_pc EXCEPT ![c] =
                       IF diff = 0 THEN "pop_cas"
                       ELSE IF diff < 0 THEN "idle" ELSE "pop_load_pos"]
    /\ UNCHANGED notMP
    /\ UNCHANGED <<mp_capacity, mp_sequence, mp_data, mp_enqueue_pos,
                   mp_dequeue_pos, mp_pos, mp_msg, mp_pushed, mp_pushDone,
                   mp_retCount>>

(* dequeue_pos_.compare_exchange_weak(pos, pos + 1) *)
MPPopCas(c) ==
    /\ mp_pc[c] = "pop_cas"
    /\ \/ /\ mp_dequeue_pos = mp_pos[c]
          /\ mp_dequeue_pos' = mp_pos[c] + 1
          /\ mp_pc' = [mp_pc EXCEPT ![c] = "pop_load_data"]
       \/ /\ mp_dequeue_pos' = mp_dequeue_pos
          /\ mp_pc' = [mp_pc EXCEPT ![c] = "pop_load_pos"]
    /\ UNCHANGED notMP
    /\ UNCHANGED <<mp_capacity, mp_sequence, mp_data, mp_enqueue_pos, mp_pos,
                   mp_msg, mp_pushed, mp_pushDone, mp_retCount>>

(* Message* msg = cell->data *)
MPPopLoadData(c) ==
    /\ mp_pc[c] = "pop_load_data"
    /\ mp_msg' = [mp_msg EXCEPT ![c] = mp_data[MPCell(mp_pos[c])]]
    /\ mp_pc' = [mp_pc EXCEPT ![c] = "pop_store_seq"]
    /\ UNCHANGED notMP
    /\ UNCHANGED <<mp_capacity, mp_sequence, mp_data, mp_enqueue_pos,
                   mp_dequeue_pos, mp_pos, mp_pushed, mp_pushDone, mp_retCount>>

(* cell->sequence.store(pos + capacity_); return msg. *)
MPPopStoreSeq(c) ==
    /\ mp_pc[c] = "pop_store_seq"
    /\ mp_sequence' = [mp_sequence EXCEPT
                          ![MPCell(mp_pos[c])] = mp_pos[c] + mp_capacity]
    /\ mp_retCount' = [mp_retCount EXCEPT ![mp_msg[c]] = @ + 1]
    /\ mp_msg' = [mp_msg EXCEPT ![c] = NoMsg]
    /\ mp_pc' = [mp_pc EXCEPT ![c] = "idle"]
    /\ UNCHANGED notMP
    /\ UNCHANGED <<mp_capacity, mp_data, mp_enqueue_pos, mp_dequeue_pos,
                   mp_pos, mp_pushed, mp_pushDone>>

MPNext ==
    \/ \E p \in Producers :
          \/ MPPushCall(p)
          \/ MPPushLoadPos(p)
          \/ MPPushLoadSeq(p)
          \/ MPPushCas(p)
          \/ MPPushStoreData(p)
          \/ MPPushStoreSeq(p)
    \/ \E c \in Consumers :
          \/ MPTryPopCall(c)
          \/ MPPopLoadPos(c)
          \/ MPPopLoadSeq(c)
          \/ MPPopCas(c)
          \/ MPPopLoadData(c)
          \/ MPPopStoreSeq(c)

(***************************************************************************)
(* DefaultMessageQueue: one mutex, condition variables not_empty_ and      *)
(* not_full_.  A critical section is one step; a thread blocked in a       *)
(* condition variable's wait is in the variable's wait set until a notify  *)
(* (or a spurious wake-up) takes it out, and then re-evaluates its         *)
(* predicate under the mutex.                                              *)
(***************************************************************************)
DQProd == 1..DQProducers
DQCons == (DQProducers + 1)..(DQProducers + DQConsumers)
DQThreads == DQProd \cup DQCons
DQMsgs == 1..DQMaxMsgs

DQInit ==
    /\ dq_max_size \in 0..DQMaxSize
    /\ dq_queue = <<>>
    /\ dq_shutdown = FALSE
    /\ dq_waitNotFull = {}
    /\ dq_waitNotEmpty = {}
    /\ dq_pc = [t \in DQThreads |-> "idle"]
    /\ dq_msg = [t \in DQThreads |-> NoMsg]
    /\ dq_nextMsg = 1
    /\ dq_returned = <<>>
    /\ dq_dropped = {}
    /\ dq_cleared = {}
    /\ dq_pushDone = {}
    /\ dq_begunBefore = {}
    /\ dq_before = [m \in DQMsgs |-> {}]

(* A fullness test that lets one message too many in. *)
DQFullOffByOne(q, max) == max > 0 /\ Len(q) > max

(* max_size_ > 0 && queue_.size() >= max_size_ *)
DQFull(q, max) == max > 0 /\ Len(q) >= max

(* The wait predicate of push: queue_.size() < max_size_ || shutdown_ *)
DQPushPred == Len(dq_queue) < dq_max_size \/ dq_shutdown

(* A pop predicate that does not look at shutdown_. *)
DQPopPredNoShutdown == dq_queue # <<>>

(* The wait predicate of the pop operations: !queue_.empty() || shutdown_ *)
DQPopPred == dq_queue # <<>> \/ dq_shutdown

(* A notify_one that wakes nobody. *)
DQNotifyOneLost(waiting, after) == after = waiting

(* notify_one on a condition variable: one waiting thread, if any, leaves  *)
(* the wait set.                                                           *)
DQNotifyOne(waiting, after) ==
    IF waiting = {} THEN after = {}
    ELSE \E t \in waiting : after = waiting \ {t}

(* push(message) is called; the thread goes for the mutex. *)
DQPushCall(p) ==
    /\ dq_pc[p] = "idle"
    /\ dq_nextMsg <= DQMaxMsgs
    /\ dq_msg' = [dq_msg EXCEPT ![p] = dq_nextMsg]
    /\ dq_nextMsg' = dq_nextMsg + 1
    /\ dq_pc' = [dq_pc EXCEPT ![p] = "push_enter"]
    /\ dq_begunBefore' = IF dq_shutdown THEN dq_begunBefore
                         ELSE dq_begunBefore \cup {dq_nextMsg}
    /\ dq_before' = [dq_before EXCEPT ![dq_nextMsg] = dq_pushDone]
    /\ UNCHANGED notDQ
    /\ UNCHANGED <<dq_max_size, dq_queue, dq_shutdown, dq_waitNotFull,
                   dq_waitNotEmpty, dq_returned, dq_dropped,
                   dq_cleared, dq_pushDone>>

(* A push that inserts at the front of the queue instead of the back. *)
DQEnqueueFront(p) ==
    /\ dq_queue' = <<dq_msg[p]>> \o dq_queue
    /\ dq_pc' = [dq_pc EXCEPT ![p] = "push_notify"]
    /\ UNCHANGED <<dq_msg, dq_dropped, dq_pushDone, dq_waitNotFull>>

(* queue_.push(std::move(message)); lock.unlock() *)
DQEnqueue(p) ==
    /\ dq_queue' = Append(dq_queue, dq_msg[p])
    /\ dq_pc' = [dq_pc EXCEPT ![p] = "push_notify"]
    /\ UNCHANGED <<dq_msg, dq_dropped, dq_pushDone, dq_waitNotFull>>

(* A push that enqueues although it found shutdown_ set. *)
DQDropEnqueues(p) ==
    /\ dq_queue' = Append(dq_queue, dq_msg[p])
    /\ dq_pc' = [dq_pc EXCEPT ![p] = "push_notify"]
    /\ UNCHANGED <<dq_msg, dq_dropped, dq_pushDone, dq_waitNotFull>>

(* The shutdown branches of push: log a warning and return. *)
DQDrop(p) ==
    /\ dq_dropped' = dq_dropped \cup {dq_msg[p]}
    /\ dq_pushDone' = dq_pushDone \cup {dq_msg[p]}
    /\ dq_msg' = [dq_msg EXCEPT ![p] = NoMsg]
    /\ dq_pc' = [dq_pc EXCEPT ![p] = "idle"]
    /\ UNCHANGED <<dq_queue, dq_waitNotFull>>

(* push with the mutex held: the shutdown check, the full check (the       *)
(* thread blocks in not_full_.wait when the predicate is false), the push. *)
DQPushLocked(p) ==
    /\ dq_pc[p] = "push_enter"
    /\ IF dq_shutdown THEN DQDrop(p)
       ELSE IF DQFull(dq_queue, dq_max_size) /\ ~DQPushPred
            THEN /\ dq_pc' = [dq_pc EXCEPT ![p] = "push_wait"]
                 /\ dq_waitNotFull' = dq_waitNotFull \cup {p}
                 /\ UNCHANGED <<dq_queue, dq_msg, dq_dropped, dq_pushDone>>
            ELSE DQEnqueue(p)
    /\ UNCHANGED notDQ
    /\ UNCHANGED <<dq_max_size, dq_shutdown, dq_waitNotEmpty, dq_nextMsg,
                   dq_returned, dq_cleared, dq_begunBefore,
                   dq_before>>

(* not_full_.wait wakes (notified or spuriously), re-acquires the mutex    *)
(* and evaluates the predicate: false blocks again; true leaves the wait,  *)
(* and push checks shutdown_ again before pushing.                         *)
DQPushWake(p) ==
    /\ dq_pc[p] = "push_wait"
    /\ p \notin dq_waitNotFull
    /\ IF ~DQPushPred
       THEN /\ dq_waitNotFull' = dq_waitNotFull \cup {p}
            /\ UNCHANGED <<dq_queue, dq_pc, dq_msg, dq_dropped, dq_pushDone>>
       ELSE IF dq_shutdown THEN DQDrop(p) ELSE DQEnqueue(p)
    /\ UNCHANGED notDQ
    /\ UNCHANGED <<dq_max_size, dq_shutdown, dq_waitNotEmpty, dq_nextMsg,
                   dq_returned, dq_cleared, dq_begunBefore,
                   dq_before>>

(* not_empty_.notify_one() after the unlock; push returns. *)
DQPushNotify(p) ==
    /\ dq_pc[p] = "push_notify"
    /\ DQNotifyOne(dq_waitNotEmpty, dq_waitNotEmpty')
    /\ dq_pushDone' = dq_pushDone \cup {dq_msg[p]}
    /\ dq_msg' = [dq_msg EXCEPT ![p] = NoMsg]
    /\ dq_pc' = [dq_pc EXCEPT ![p] = "idle"]
    /\ UNCHANGED notDQ
    /\ UNCHANGED <<dq_max_size, dq_queue, dq_shutdown, dq_waitNotFull,
                   dq_nextMsg, dq_returned, dq_dropped, dq_cleared,
                   dq_begunBefore, dq_before>>

(* A pop operation that forgets queue_.pop() after taking the front. *)
DQTakeNoPop(c) ==
    /\ dq_msg' = [dq_msg EXCEPT ![c] = Head(dq_queue)]
    /\ dq_returned' = Append(dq_returned, Head(dq_queue))
    /\ dq_queue' = dq_queue
    /\ dq_pc' = [dq_pc EXCEPT ![c] = "pop_notify"]
    /\ UNCHANGED dq_waitNotEmpty

(* message = std::move(queue_.front()); queue_.pop(); lock.unlock() *)
DQTake(c) ==
    /\ dq_msg' = [dq_msg EXCEPT ![c] = Head(dq_queue)]
    /\ dq_returned' = Append(dq_returned, Head(dq_queue))
    /\ dq_queue' = Tail(dq_queue)
    /\ dq_pc' = [dq_pc EXCEPT ![c] = "pop_notify"]
    /\ UNCHANGED dq_waitNotEmpty

(* return nullptr *)
DQReturnNull(c) ==
    /\ dq_pc' = [dq_pc EXCEPT ![c] = "idle"]
    /\ UNCHANGED <<dq_queue, dq_msg, dq_returned, dq_waitNotEmpty>>

(* pop(): not_empty_.wait(lock, pred) blocks while the predicate is false; *)
(* then nullptr if the queue is empty (shutdown), else the front message.  *)
DQPop(c) ==
    /\ dq_pc[c] = "idle"
    /\ IF ~DQPopPred
       THEN /\ dq_pc' = [dq_pc EXCEPT ![c] = "pop_wait"]
            /\ dq_waitNotEmpty' = dq_waitNotEmpty \cup {c}
            /\ UNCHANGED <<dq_queue, dq_msg, dq_returned>>
       ELSE IF dq_queue = <<>> THEN DQReturnNull(c) ELSE DQTake(c)
    /\ UNCHANGED notDQ
    /\ UNCHANGED <<dq_max_size, dq_shutdown, dq_waitNotFull, dq_nextMsg,
                   dq_dropped, dq_cleared, dq_pushDone, dq_begunBefore,
                   dq_before>>

(* not_empty_.wait of pop() wakes and re-evaluates the predicate. *)
DQPopWake(c) ==
    /\ dq_pc[c] = "pop_wait"
    /\ c \notin dq_waitNotEmpty
    /\ IF ~DQPopPred
       THEN /\ dq_waitNotEmpty' = dq_waitNotEmpty \cup {c}
            /\ UNCHANGED <<dq_queue, dq_pc, dq_msg, dq_returned>>
       ELSE IF dq_queue = <<>> THEN DQReturnNull(c) ELSE DQTake(c)
    /\ UNCHANGED notDQ
    /\ UNCHANGED <<dq_max_size, dq_shutdown, dq_waitNotFull, dq_nextMsg,
                   dq_dropped, dq_cleared, dq_pushDone, dq_begunBefore,
                   dq_before>>

(* tryPop(): nullptr if the queue is empty, else the front message. *)
DQTryPop(c) ==
    /\ dq_pc[c] = "idle"
    /\ IF dq_queue = <<>> THEN DQReturnNull(c) ELSE DQTake(c)
    /\ UNCHANGED notDQ
    /\ UNCHANGED <<dq_max_size, dq_shutdown, dq_waitNotFull, dq_nextMsg,
                   dq_dropped, dq_cleared, dq_pushDone, dq_begunBefore,
                   dq_before>>

(* waitAndPop(timeout): not_empty_.wait_for(lock, timeout, pred). *)
DQWaitAndPop(c) ==
    /\ dq_pc[c] = "idle"
    /\ IF ~DQPopPred
       THEN /\ dq_pc' = [dq_pc EXCEPT ![c] = "wpop_wait"]
            /\ dq_waitNotEmpty' = dq_waitNotEmpty \cup {c}
            /\ UNCHANGED <<dq_queue, dq_msg, dq_returned>>
       ELSE IF dq_queue = <<>> THEN DQReturnNull(c) ELSE DQTake(c)
    /\ UNCHANGED notDQ
    /\ UNCHANGED <<dq_max_size, dq_shutdown, dq_waitNotFull, dq_nextMsg,
                   dq_dropped, dq_cleared, dq_pushDone, dq_begunBefore,
                   dq_before>>

(* wait_for of waitAndPop wakes before the timeout and re-evaluates the    *)
(* predicate.                                                              *)
DQWaitPopWake(c) ==
    /\ dq_pc[c] = "wpop_wait"
    /\ c \notin dq_waitNotEmpty
    /\ IF ~DQPopPred
       THEN /\ dq_waitNotEmpty' = dq_waitNotEmpty \cup {c}
            /\ UNCHANGED <<dq_queue, dq_pc, dq_msg, dq_returned>>
       ELSE IF dq_queue = <<>> THEN DQReturnNull(c) ELSE DQTake(c)
    /\ UNCHANGED notDQ
    /\ UNCHANGED <<dq_max_size, dq_shutdown, dq_waitNotFull, dq_nextMsg,
                   dq_dropped, dq_cleared, dq_pushDone, dq_begunBefore,
                   dq_before>>

(* wait_for times out: success = pred(); nullptr if !success or the queue  *)
(* is empty, else the front message.                                       *)
DQWaitPopTimeout(c) ==
    /\ dq_pc[c] = "wpop_wait"
    /\ IF ~DQPopPred \/ dq_queue = <<>>
       THEN /\ dq_pc' = [dq_pc EXCEPT ![c] = "idle"]
            /\ dq_waitNotEmpty' = dq_waitNotEmpty \ {c}
            /\ UNCHANGED <<dq_queue, dq_msg, dq_returned>>
       ELSE /\ dq_msg' = [dq_msg EXCEPT ![c] = Head(dq_queue)]
            /\ dq_returned' = Append(dq_returned, Head(dq_queue))
            /\ dq_queue' = Tail(dq_queue)
            /\ dq_pc' = [dq_pc EXCEPT ![c] = "pop_notify"]
            /\ dq_waitNotEmpty' = dq_waitNotEmpty \ {c}
    /\ UNCHANGED notDQ
    /\ UNCHANGED <<dq_max_size, dq_shutdown, dq_waitNotFull, dq_nextMsg,
                   dq_dropped, dq_cleared, dq_pushDone, dq_begunBefore,
                   dq_before>>

(* if (max_size_ > 0) not_full_.notify_one(); return message. *)
DQPopNotify(c) ==
    /\ dq_pc[c] = "pop_notify"
    /\ IF dq_max_size > 0
       THEN DQNotifyOne(dq_waitNotFull, dq_waitNotFull')
       ELSE dq_waitNotFull' = dq_waitNotFull
    /\ dq_msg' = [dq_msg EXCEPT ![c] = NoMsg]
    /\ dq_pc' = [dq_pc EXCEPT ![c] = "idle"]
    /\ UNCHANGED notDQ
    /\ UNCHANGED <<dq_max_size, dq_queue, dq_shutdown, dq_waitNotEmpty,
                   dq_nextMsg, dq_returned, dq_dropped, dq_cleared,
                   dq_pushDone, dq_begunBefore, dq_before>>

(* A spurious wake-up of a thread blocked in a condition variable. *)
DQSpuriousWake(t) ==
    /\ t \in dq_waitNotFull \cup dq_waitNotEmpty
    /\ dq_waitNotFull' = dq_waitNotFull \ {t}
    /\ dq_waitNotEmpty' = dq_waitNotEmpty \ {t}
    /\ UNCHANGED notDQ
    /\ UNCHANGED <<dq_max_size, dq_queue, dq_shutdown, dq_pc, dq_msg,
                   dq_nextMsg, dq_returned, dq_dropped, dq_cleared,
                   dq_pushDone, dq_begunBefore, dq_before>>

(* clear(): swap the queue with an empty one; notify_all on not_full_ if   *)
(* the queue is bounded.                                                   *)
DQClear ==
    /\ dq_queue # <<>>
    /\ dq_cleared' = dq_cleared \cup {dq_queue[i] : i \in 1..Len(dq_queue)}
    /\ dq_queue' = <<>>
    /\ dq_waitNotFull' = IF dq_max_size > 0 THEN {} ELSE dq_waitNotFull
    /\ UNCHANGED notDQ
    /\ UNCHANGED <<dq_max_size, dq_shutdown, dq_waitNotEmpty, dq_pc, dq_msg,
                   dq_nextMsg, dq_returned, dq_dropped,
                   dq_pushDone, dq_begunBefore, dq_before>>

(* shutdown(): shutdown_ = true; notify_all on both condition variables. *)
DQShutdown ==
    /\ ~dq_shutdown
    /\ dq_shutdown' = TRUE
    /\ dq_waitNotEmpty' = {}
    /\ dq_waitNotFull' = {}
    /\ UNCHANGED notDQ
    /\ UNCHANGED <<dq_max_size, dq_queue, dq_pc, dq_msg, dq_nextMsg,
                   dq_returned, dq_dropped, dq_cleared,
                   dq_pushDone, dq_begunBefore, dq_before>>

DQNext ==
    \/ \E p \in DQProd :
          \/ DQPushCall(p)
          \/ DQPushLocked(p)
          \/ DQPushWake(p)
          \/ DQPushNotify(p)
    \/ \E c \in DQCons :
          \/ DQPop(c)
          \/ DQPopWake(c)
          \/ DQTryPop(c)
          \/ DQWaitAndPop(c)
          \/ DQWaitPopWake(c)
          \/ DQWaitPopTimeout(c)
          \/ DQPopNotify(c)
    \/ \E t \in DQThreads : DQSpuriousWake(t)
    \/ DQClear
    \/ DQShutdown

(***************************************************************************)
(* BaseService: the atomic flag running_, the worker thread running run(), *)
(* a controlling thread calling init(), start() and stop(), and a posting  *)
(* thread calling postMessage().  The queue is the default                 *)
(* DefaultMessageQueue() (max_size_ = 0); each of its operations is one    *)
(* critical section.  onStart() and onStop() are subclass hooks: they      *)
(* succeed or fail.                                                        *)
(***************************************************************************)
SVMsgs == 1..SVMaxMsgs

SVInit ==
    /\ sv_running = FALSE
    /\ sv_queue = <<>>
    /\ sv_qshutdown = FALSE
    /\ sv_worker = "none"
    /\ sv_wmsg = NoMsg
    /\ sv_joinable = FALSE
    /\ sv_crashed = FALSE
    /\ sv_ctl = "idle"
    /\ sv_ctlResult = "none"
    /\ sv_inited = FALSE
    /\ sv_post = "idle"
    /\ sv_pmsg = NoMsg
    /\ sv_nextMsg = 1
    /\ sv_result = [m \in SVMsgs |-> "none"]
    /\ sv_handled = {}
    /\ sv_stopReturned = FALSE
    /\ sv_afterStop = {}

(* DefaultMessageQueue::push on the unbounded queue: dropped if shutdown_. *)
SVQueuePush(q, shut, m) == IF shut THEN q ELSE Append(q, m)

(* init(): an error if the queue is shut down, else onInit(). *)
SVInitCall ==
    /\ ~sv_crashed
    /\ sv_ctl = "idle"
    /\ IF sv_qshutdown
       THEN sv_ctlResult' = "SERVICE_ERROR" /\ UNCHANGED sv_inited
       ELSE sv_ctlResult' = "Success" /\ sv_inited' = TRUE
    /\ UNCHANGED notSV
    /\ UNCHANGED <<sv_running, sv_queue, sv_qshutdown, sv_worker, sv_wmsg,
                   sv_joinable, sv_crashed, sv_ctl, sv_post, sv_pmsg,
                   sv_nextMsg, sv_result, sv_handled, sv_stopReturned,
                   sv_afterStop>>

(* A start() that does not test running_. *)
SVStartCallUnchecked ==
    /\ ~sv_crashed
    /\ sv_ctl = "idle"
    /\ sv_running' = TRUE
    /\ sv_ctl' = "start_spawn"
    /\ sv_ctlResult' = "none"
    /\ UNCHANGED notSV
    /\ UNCHANGED <<sv_queue, sv_qshutdown, sv_worker, sv_wmsg, sv_joinable,
                   sv_crashed, sv_inited, sv_post, sv_pmsg, sv_nextMsg,
                   sv_result, sv_handled, sv_stopReturned, sv_afterStop>>

(* start(): if (running_) return SERVICE_ALREADY_STARTED; running_ = true *)
SVStartCall ==
    /\ ~sv_crashed
    /\ sv_ctl = "idle"
    /\ IF sv_running
       THEN /\ sv_ctlResult' = "SERVICE_ALREADY_STARTED"
            /\ UNCHANGED <<sv_running, sv_ctl>>
       ELSE /\ sv_running' = TRUE
            /\ sv_ctl' = "start_spawn"
            /\ sv_ctlResult' = "none"
    /\ UNCHANGED notSV
    /\ UNCHANGED <<sv_queue, sv_qshutdown, sv_worker, sv_wmsg, sv_joinable,
                   sv_crashed, sv_inited, sv_post, sv_pmsg, sv_nextMsg,
                   sv_result, sv_handled, sv_stopReturned, sv_afterStop>>

(* worker_thread_ = std::thread(&BaseService::run, this): move-assigning   *)
(* to a std::thread that is still joinable calls std::terminate.           *)
SVStartSpawn ==
    /\ ~sv_crashed
    /\ sv_ctl = "start_spawn"
    /\ IF sv_joinable
       THEN /\ sv_crashed' = TRUE
            /\ UNCHANGED <<sv_worker, sv_joinable, sv_ctl>>
       ELSE /\ sv_worker' = "loop"
            /\ sv_joinable' = TRUE
            /\ sv_ctl' = "start_onstart"
            /\ UNCHANGED sv_crashed
    /\ UNCHANGED notSV
    /\ UNCHANGED <<sv_running, sv_queue, sv_qshutdown, sv_wmsg, sv_ctlResult,
                   sv_inited, sv_post, sv_pmsg, sv_nextMsg, sv_result,
                   sv_handled, sv_stopReturned, sv_afterStop>>

(* onStart() succeeds: start() returns success. *)
SVStartOk ==
    /\ ~sv_crashed
    /\ sv_ctl = "start_onstart"
    /\ sv_ctl' = "idle"
    /\ sv_ctlResult' = "Success"
    /\ UNCHANGED notSV
    /\ UNCHANGED <<sv_running, sv_queue, sv_qshutdown, sv_worker, sv_wmsg,
                   sv_joinable, sv_crashed, sv_inited, sv_post, sv_pmsg,
                   sv_nextMsg, sv_result, sv_handled, sv_stopReturned,
                   sv_afterStop>>

(* onStart() fails: running_ = false, then join the worker. *)
SVStartFail ==
    /\ ~sv_crashed
    /\ sv_ctl = "start_onstart"
    /\ sv_running' = FALSE
    /\ sv_ctl' = "start_join"
    /\ UNCHANGED notSV
    /\ UNCHANGED <<sv_queue, sv_qshutdown, sv_worker, sv_wmsg, sv_joinable,
                   sv_crashed, sv_ctlResult, sv_inited, sv_post, sv_pmsg,
                   sv_nextMsg, sv_result, sv_handled, sv_stopReturned,
                   sv_afterStop>>

(* worker_thread_.join() in start(): returns once run() has returned. *)
SVStartJoin ==
    /\ ~sv_crashed
    /\ sv_ctl = "start_join"
    /\ sv_worker = "done"
    /\ sv_worker' = "none"
    /\ sv_joinable' = FALSE
    /\ sv_ctl' = "idle"
    /\ sv_ctlResult' = "onStart error"
    /\ UNCHANGED notSV
    /\ UNCHANGED <<sv_running, sv_queue, sv_qshutdown, sv_wmsg, sv_crashed,
                   sv_inited, sv_post, sv_pmsg, sv_nextMsg, sv_result,
                   sv_handled, sv_stopReturned, sv_afterStop>>

(* stop(): if (!running_) return SERVICE_NOT_STARTED; running_ = false *)
SVStopCall ==
    /\ ~sv_crashed
    /\ sv_ctl = "idle"
    /\ IF ~sv_running
       THEN /\ sv_ctlResult' = "SERVICE_NOT_STARTED"
            /\ UNCHANGED <<sv_running, sv_ctl>>
       ELSE /\ sv_running' = FALSE
            /\ sv_ctl' = "stop_shutdown"
            /\ sv_ctlResult' = "none"
    /\ UNCHANGED notSV
    /\ UNCHANGED <<sv_queue, sv_qshutdown, sv_worker, sv_wmsg, sv_joinable,
                   sv_crashed, sv_inited, sv_post, sv_pmsg, sv_nextMsg,
                   sv_result, sv_handled, sv_stopReturned, sv_afterStop>>

(* message_queue_->shutdown() *)
SVStopShutdown ==
    /\ ~sv_crashed
    /\ sv_ctl = "stop_shutdown"
    /\ sv_qshutdown' = TRUE
    /\ sv_ctl' = "stop_onstop"
    /\ UNCHANGED notSV
    /\ UNCHANGED <<sv_running, sv_queue, sv_worker, sv_wmsg, sv_joinable,
                   sv_crashed, sv_ctlResult, sv_inited, sv_post, sv_pmsg,
                   sv_nextMsg, sv_result, sv_handled, sv_stopReturned,
                   sv_afterStop>>

(* onStop() fails: stop() returns the error without joining the worker. *)
SVStopFail ==
    /\ ~sv_crashed
    /\ sv_ctl = "stop_onstop"
    /\ sv_ctl' = "idle"
    /\ sv_ctlResult' = "onStop error"
    /\ UNCHANGED notSV
    /\ UNCHANGED <<sv_running, sv_queue, sv_qshutdown, sv_worker, sv_wmsg,
                   sv_joinable, sv_crashed, sv_inited, sv_post, sv_pmsg,
                   sv_nextMsg, sv_result, sv_handled, sv_stopReturned,
                   sv_afterStop>>

(* onStop() succeeds: go on to the join. *)
SVStopOk ==
    /\ ~sv_crashed
    /\ sv_ctl = "stop_onstop"
    /\ sv_ctl' = "stop_join"
    /\ UNCHANGED notSV
    /\ UNCHANGED <<sv_running, sv_queue, sv_qshutdown, sv_worker, sv_wmsg,
                   sv_joinable, sv_crashed, sv_ctlResult, sv_inited, sv_post,
                   sv_pmsg, sv_nextMsg, sv_result, sv_handled,
                   sv_stopReturned, sv_afterStop>>

(* if (worker_thread_.joinable()) worker_thread_.join(); return success. *)
SVStopJoin ==
    /\ ~sv_crashed
    /\ sv_ctl = "stop_join"
    /\ IF sv_joinable
       THEN /\ sv_worker = "done"
            /\ sv_worker' = "none"
            /\ sv_joinable' = FALSE
       ELSE UNCHANGED <<sv_worker, sv_joinable>>
    /\ sv_ctl' = "idle"
    /\ sv_ctlResult' = "Success"
    /\ sv_stopReturned' = TRUE
    /\ UNCHANGED notSV
    /\ UNCHANGED <<sv_running, sv_queue, sv_qshutdown, sv_wmsg, sv_crashed,
                   sv_inited, sv_post, sv_pmsg, sv_nextMsg, sv_result,
                   sv_handled, sv_afterStop>>

(* postMessage(message): if (!running_) return SERVICE_NOT_STARTED *)
SVPostCall ==
    /\ ~sv_crashed
    /\ sv_post = "idle"
    /\ sv_nextMsg <= SVMaxMsgs
    /\ sv_nextMsg' = sv_nextMsg + 1
    /\ sv_afterStop' = IF sv_stopReturned THEN sv_afterStop \cup {sv_nextMsg}
                       ELSE sv_afterStop
    /\ IF ~sv_running
       THEN /\ sv_result' = [sv_result EXCEPT ![sv_nextMsg] = "SERVICE_NOT_STARTED"]
            /\ UNCHANGED <<sv_post, sv_pmsg>>
       ELSE /\ sv_post' = "push"
            /\ sv_pmsg' = sv_nextMsg
            /\ UNCHANGED sv_result
    /\ UNCHANGED notSV
    /\ UNCHANGED <<sv_running, sv_queue, sv_qshutdown, sv_worker, sv_wmsg,
                   sv_joinable, sv_crashed, sv_ctl, sv_ctlResult, sv_inited,
                   sv_handled, sv_stopReturned>>

(* setTimestamp; message_queue_->push(std::move(message)); return success. *)
SVPostPush ==
    /\ ~sv_crashed
    /\ sv_post = "push"
    /\ sv_queue' = SVQueuePush(sv_queue, sv_qshutdown, sv_pmsg)
    /\ sv_result' = [sv_result EXCEPT ![sv_pmsg] = "Success"]
    /\ sv_post' = "idle"
    /\ sv_pmsg' = NoMsg
    /\ UNCHANGED notSV
    /\ UNCHANGED <<sv_running, sv_qshutdown, sv_worker, sv_wmsg, sv_joinable,
                   sv_crashed, sv_ctl, sv_ctlResult, sv_inited, sv_nextMsg,
                   sv_handled, sv_stopReturned, sv_afterStop>>

(* run(): while (running_) *)
SVWorkerCheck ==
    /\ ~sv_crashed
    /\ sv_worker = "loop"
    /\ sv_worker' = IF sv_running THEN "wait" ELSE "done"
    /\ UNCHANGED notSV
    /\ UNCHANGED <<sv_running, sv_queue, sv_qshutdown, sv_wmsg, sv_joinable,
                   sv_crashed, sv_ctl, sv_ctlResult, sv_inited, sv_post,
                   sv_pmsg, sv_nextMsg, sv_result, sv_handled,
                   sv_stopReturned, sv_afterStop>>

(* waitAndPop(100 ms) returns the front message of a non-empty queue. *)
SVWorkerPop ==
    /\ ~sv_crashed
    /\ sv_worker = "wait"
    /\ sv_queue # <<>>
    /\ sv_wmsg' = Head(sv_queue)
    /\ sv_queue' = Tail(sv_queue)
    /\ sv_worker' = "msg"
    /\ UNCHANGED notSV
    /\ UNCHANGED <<sv_running, sv_qshutdown, sv_joinable, sv_crashed, sv_ctl,
                   sv_ctlResult, sv_inited, sv_post, sv_pmsg, sv_nextMsg,
                   sv_result, sv_handled, sv_stopReturned, sv_afterStop>>

(* waitAndPop(100 ms) returns nullptr: the queue stayed empty until the    *)
(* timeout, or it is empty and shut down; onUpdate is then called.         *)
SVWorkerTimeout ==
    /\ ~sv_crashed
    /\ sv_worker = "wait"
    /\ sv_queue = <<>>
    /\ sv_worker' = "loop"
    /\ UNCHANGED notSV
    /\ UNCHANGED <<sv_running, sv_queue, sv_qshutdown, sv_wmsg, sv_joinable,
                   sv_crashed, sv_ctl, sv_ctlResult, sv_inited, sv_post,
                   sv_pmsg, sv_nextMsg, sv_result, sv_handled,
                   sv_stopReturned, sv_afterStop>>

(* onMessage of the popped message; onUpdate; back to the loop condition. *)
SVWorkerDispatch ==
    /\ ~sv_crashed
    /\ sv_worker = "msg"
    /\ sv_handled' = sv_handled \cup {sv_wmsg}
    /\ sv_wmsg' = NoMsg
    /\ sv_worker' = "loop"
    /\ UNCHANGED notSV
    /\ UNCHANGED <<sv_running, sv_queue, sv_qshutdown, sv_joinable, sv_crashed,
                   sv_ctl, sv_ctlResult, sv_inited, sv_post, sv_pmsg,
                   sv_nextMsg, sv_result, sv_stopReturned, sv_afterStop>>

SVNext ==
    \/ SVInitCall
    \/ SVStartCall
    \/ SVStartSpawn
    \/ SVStartOk
    \/ SVStartFail
    \/ SVStartJoin
    \/ SVStopCall
    \/ SVStopShutdown
    \/ SVStopFail
    \/ SVStopOk
    \/ SVStopJoin
    \/ SVPostCall
    \/ SVPostPush
    \/ SVWorkerCheck
    \/ SVWorkerPop
    \/ SVWorkerTimeout
    \/ SVWorkerDispatch

(***************************************************************************)
(* TimerManager (src/src/utils/timer.cpp:9-388): the singleton between its *)
(* construction, which starts the worker thread, and its destruction.      *)
(* Every public operation runs under mutex_ and is one step.  The worker   *)
(* releases mutex_ while it waits on cv_ and before it invokes a callback, *)
(* so its loop is cut at those points.  cv_.notify_one() needs no state:   *)
(* a waiting worker may re-evaluate its predicate at any time (a spurious  *)
(* wake-up), which covers every notified wake-up.                          *)
(***************************************************************************)
TimerIds == 1..MaxTimers

GroupIds == 1..MaxGroups

(* "no clock value": before the first firing *)
NoTime == -1

(* the worker holds no task *)
NoTask == [id |-> 0, next_run |-> 0, interval |-> 0, repeat |-> FALSE]

(* the task being fired was not re-inserted *)
NoResched == [at |-> 0, next_run |-> 0, interval |-> 0]

(* map.erase(k) for each k in ks *)
TMErase(f, ks) == [k \in (DOMAIN f) \ ks |-> f[k]]

(* map[k] = v *)
TMPut(f, k, v) == [x \in (DOMAIN f) \cup {k} |-> IF x = k THEN v ELSE f[x]]

(* groups_[g]: operator[] inserts an empty vector when g is absent *)
TMGroupRef(groups, g) ==
    IF g \in DOMAIN groups THEN groups ELSE TMPut(groups, g, <<>>)

(* timers.erase(std::remove(timers.begin(), timers.end(), id), timers.end()) *)
TMRemoveId(timers, id) == SelectSeq(timers, LAMBDA x : x # id)

(* the timer ids a group's vector holds *)
TMMembers(timers) == {timers[i] : i \in 1..Len(timers)}

(* rebuildQueue(): the queue is refilled with a copy of every task in tasks_ *)
TMRebuildQueue(tasks) == {tasks[id] : id \in DOMAIN tasks}

(* queue_.top(): a task with the least next_run (operator> compares        *)
(* next_run only, so the order among equal deadlines is the heap's)        *)
TMTops(queue) == {t \in queue : \A u \in queue : t.next_run <= u.next_run}

(* of the groups in cands, those that exist and are empty *)
TMStillEmpty(cands, groups) ==
    {g \in cands : g \in DOMAIN groups /\ groups[g] = <<>>}

(* add 1 to a counter that stops at 2 *)
TMCount(n) == IF n < 2 THEN n + 1 ELSE 2

TMInit ==
    /\ tm_clock = 0
    /\ tm_tasks = [t \in {} |-> NoTask]
    /\ tm_queue = {}
    /\ tm_groups = [g \in {} |-> <<>>]
    /\ tm_timer_to_group = [t \in {} |-> 0]
    /\ tm_next_id = 1
    /\ tm_next_group_id = 1
    /\ tm_modifies = 0
    /\ tm_pc = "loop"
    /\ tm_task = NoTask
    /\ tm_now = 0
    /\ tm_carried = NoTime
    /\ tm_everRepeat = {}
    /\ tm_fireCount = [t \in TimerIds |-> 0]
    /\ tm_cancelled = {}
    /\ tm_groupCancelled = {}
    /\ tm_lateStart = [t \in TimerIds |-> 0]
    /\ tm_lateDequeue = {}
    /\ tm_cgLost = {}
    /\ tm_resched = NoResched
    /\ tm_prevRun = NoTime
    /\ tm_lastRun = NoTime
    /\ tm_emptied = {}

(* what the operations of the public interface leave alone *)
tmWorker == <<tm_pc, tm_task, tm_now, tm_carried, tm_fireCount, tm_lateStart,
              tm_lateDequeue, tm_resched, tm_prevRun, tm_lastRun>>

(* The clock advances. *)
TMTick ==
    /\ tm_clock < MaxTime
    /\ tm_clock' = tm_clock + 1
    /\ UNCHANGED notTM
    /\ UNCHANGED <<tm_modifies, tm_tasks, tm_queue, tm_groups, tm_timer_to_group, tm_next_id,
                   tm_next_group_id, tm_everRepeat, tm_cancelled,
                   tm_groupCancelled, tm_cgLost, tm_emptied, tmWorker>>

(* createTimer(delay_ms, interval_ms, repeat, callback) with a callable    *)
(* callback.  next_id_ is a u32; the model stops before it could wrap, so  *)
(* the "skip 0" branch is not taken.                                       *)
TMCreateTimer(delay, interval, repeat) ==
    /\ tm_next_id <= MaxTimers
    /\ LET id == tm_next_id
           task == [id |-> id, next_run |-> tm_clock + delay,
                    interval |-> interval, repeat |-> repeat]
       IN  /\ tm_next_id' = tm_next_id + 1
           /\ tm_tasks' = TMPut(tm_tasks, id, task)
           /\ tm_queue' = tm_queue \cup {task}
           /\ tm_everRepeat' = IF repeat THEN tm_everRepeat \cup {id}
                                         ELSE tm_everRepeat
    /\ UNCHANGED notTM
    /\ UNCHANGED <<tm_modifies, tm_clock, tm_groups, tm_timer_to_group, tm_next_group_id,
                   tm_cancelled, tm_groupCancelled, tm_cgLost, tm_emptied,
                   tmWorker>>

(* createOnce(delay_ms, callback) *)
TMCreateOnce ==
    \E delay \in 0..MaxDelay : TMCreateTimer(delay, 0, FALSE)

(* createRepeat(delay_ms, interval_ms, callback) *)
TMCreateRepeat ==
    \E delay \in 0..MaxDelay, interval \in 0..MaxInterval :
        TMCreateTimer(delay, interval, TRUE)

(* cancel() returns true and leaves the task in tasks_. *)
TMCancelEraseNone(tasks, id) == tasks

(* tasks_.erase(it) in cancel() *)
TMCancelErase(tasks, id) == TMErase(tasks, {id})

(* cancel(id); a call that returns false changes nothing *)
TMCancel ==
    \E id \in TimerIds :
        /\ id \in DOMAIN tm_tasks
        /\ LET inGroup == id \in DOMAIN tm_timer_to_group
               g == tm_timer_to_group[id]
               groups1 == IF inGroup
                          THEN [TMGroupRef(tm_groups, g) EXCEPT ![g] = TMRemoveId(@, id)]
                          ELSE tm_groups
           IN  /\ tm_groups' = groups1
               /\ tm_timer_to_group' = TMErase(tm_timer_to_group, {id})
               /\ tm_emptied' = TMStillEmpty(
                       IF inGroup THEN tm_emptied \cup {g} ELSE tm_emptied,
                       groups1)
        /\ tm_tasks' = TMCancelErase(tm_tasks, id)
        /\ tm_queue' = TMRebuildQueue(tm_tasks')
        /\ tm_cancelled' = tm_cancelled \cup {id}
        /\ UNCHANGED notTM
        /\ UNCHANGED <<tm_modifies, tm_clock, tm_next_id, tm_next_group_id, tm_everRepeat,
                       tm_groupCancelled, tm_cgLost, tmWorker>>

(* modify(id, delay_ms, interval_ms, repeat); a call that returns false    *)
(* changes nothing.  The number of successful calls is capped by           *)
(* MaxModifies.                                                            *)
TMModify ==
    \E id \in TimerIds, delay \in 0..MaxDelay, interval \in 0..MaxInterval,
       repeat \in BOOLEAN :
        /\ id \in DOMAIN tm_tasks
        /\ tm_modifies < MaxModifies
        /\ tm_modifies' = tm_modifies + 1
        /\ tm_tasks' = [tm_tasks EXCEPT ![id] =
                            [id |-> id, next_run |-> tm_clock + delay,
                             interval |-> interval, repeat |-> repeat]]
        /\ tm_queue' = TMRebuildQueue(tm_tasks')
        /\ tm_everRepeat' = IF repeat THEN tm_everRepeat \cup {id}
                                      ELSE tm_everRepeat
        /\ UNCHANGED notTM
        /\ UNCHANGED <<tm_clock, tm_groups, tm_timer_to_group, tm_next_id,
                       tm_next_group_id, tm_cancelled, tm_groupCancelled,
                       tm_cgLost, tm_emptied, tmWorker>>

(* clear() *)
TMClear ==
    /\ tm_tasks' = [t \in {} |-> NoTask]
    /\ tm_timer_to_group' = [t \in {} |-> 0]
    /\ tm_groups' = [g \in {} |-> <<>>]
    /\ tm_queue' = {}
    /\ tm_emptied' = {}
    /\ UNCHANGED notTM
    /\ UNCHANGED <<tm_modifies, tm_clock, tm_next_id, tm_next_group_id, tm_everRepeat,
                   tm_cancelled, tm_groupCancelled, tm_cgLost, tmWorker>>

(* createGroup(); next_group_id_ does not wrap within the model *)
TMCreateGroup ==
    /\ tm_next_group_id <= MaxGroups
    /\ tm_next_group_id' = tm_next_group_id + 1
    /\ tm_groups' = TMPut(tm_groups, tm_next_group_id, <<>>)
    /\ UNCHANGED notTM
    /\ UNCHANGED <<tm_modifies, tm_clock, tm_tasks, tm_queue, tm_timer_to_group, tm_next_id,
                   tm_everRepeat, tm_cancelled, tm_groupCancelled, tm_cgLost,
                   tm_emptied, tmWorker>>

(* addToGroup(group_id, timer_id); a call that returns false changes       *)
(* nothing.  The vector's length is capped by MaxGroupLen.                 *)
TMAddToGroup ==
    \E g \in GroupIds, id \in TimerIds :
        /\ id \in DOMAIN tm_tasks
        /\ g \in DOMAIN tm_groups
        /\ Len(tm_groups[g]) < MaxGroupLen
        /\ LET moved == id \in DOMAIN tm_timer_to_group /\ tm_timer_to_group[id] # g
               old == tm_timer_to_group[id]
               groups1 == IF moved
                          THEN [TMGroupRef(tm_groups, old) EXCEPT ![old] = TMRemoveId(@, id)]
                          ELSE tm_groups
           IN  /\ tm_groups' = [groups1 EXCEPT ![g] = Append(@, id)]
               /\ tm_emptied' = TMStillEmpty(
                       IF moved THEN tm_emptied \cup {old} ELSE tm_emptied,
                       tm_groups')
        /\ tm_timer_to_group' = TMPut(tm_timer_to_group, id, g)
        /\ UNCHANGED notTM
        /\ UNCHANGED <<tm_modifies, tm_clock, tm_tasks, tm_queue, tm_next_id, tm_next_group_id,
                       tm_everRepeat, tm_cancelled, tm_groupCancelled, tm_cgLost,
                       tmWorker>>

(* removeFromGroup(group_id, timer_id); a call that returns false changes  *)
(* nothing                                                                 *)
TMRemoveFromGroup ==
    \E g \in GroupIds, id \in TimerIds :
        /\ id \in DOMAIN tm_timer_to_group
        /\ tm_timer_to_group[id] = g
        /\ tm_groups' = [TMGroupRef(tm_groups, g) EXCEPT ![g] = TMRemoveId(@, id)]
        /\ tm_timer_to_group' = TMErase(tm_timer_to_group, {id})
        /\ tm_emptied' = TMStillEmpty(tm_emptied \cup {g}, tm_groups')
        /\ UNCHANGED notTM
        /\ UNCHANGED <<tm_modifies, tm_clock, tm_tasks, tm_queue, tm_next_id, tm_next_group_id,
                       tm_everRepeat, tm_cancelled, tm_groupCancelled, tm_cgLost,
                       tmWorker>>

(* cancelGroup() erases every timer. *)
TMCancelTargetsAll(g) == DOMAIN tm_tasks

(* the timers cancelGroup's loop erases: for (auto timer_id : group_it->second) *)
TMCancelTargets(g) == TMMembers(tm_groups[g])

(* cancelGroup(group_id); a call that returns false changes nothing *)
TMCancelGroup ==
    \E g \in GroupIds :
        /\ g \in DOMAIN tm_groups
        /\ tm_tasks' = TMErase(tm_tasks, TMCancelTargets(g))
        /\ tm_timer_to_group' = TMErase(tm_timer_to_group, TMCancelTargets(g))
        /\ tm_groups' = TMErase(tm_groups, {g})
        /\ tm_queue' = TMRebuildQueue(tm_tasks')
        /\ tm_groupCancelled' = tm_groupCancelled \cup TMMembers(tm_groups[g])
        /\ tm_cgLost' = tm_cgLost \cup
               (((DOMAIN tm_tasks) \ (DOMAIN tm_tasks')) \ TMMembers(tm_groups[g]))
        /\ UNCHANGED notTM
        /\ tm_emptied' = TMStillEmpty(tm_emptied, tm_groups')
        /\ UNCHANGED <<tm_modifies, tm_clock, tm_next_id, tm_next_group_id, tm_everRepeat,
                       tm_cancelled, tmWorker>>

(* what the worker's steps leave alone *)
tmClient == <<tm_clock, tm_next_id, tm_next_group_id, tm_modifies,
              tm_everRepeat,
              tm_cancelled, tm_groupCancelled, tm_cgLost>>

(* run(): the queue is empty, the worker waits on cv_ *)
TMWorkerIdle ==
    /\ tm_pc = "loop"
    /\ tm_queue = {}
    /\ tm_pc' = "wait_empty"
    /\ UNCHANGED notTM
    /\ UNCHANGED <<tm_tasks, tm_queue, tm_groups, tm_timer_to_group, tm_task,
                   tm_now, tm_carried, tm_fireCount, tm_lateStart,
                   tm_lateDequeue, tm_resched, tm_prevRun, tm_lastRun,
                   tm_emptied, tmClient>>

(* cv_.wait returns because the queue is no longer empty; continue *)
TMWorkerWake ==
    /\ tm_pc = "wait_empty"
    /\ tm_queue # {}
    /\ tm_pc' = "loop"
    /\ UNCHANGED notTM
    /\ UNCHANGED <<tm_tasks, tm_queue, tm_groups, tm_timer_to_group, tm_task,
                   tm_now, tm_carried, tm_fireCount, tm_lateStart,
                   tm_lateDequeue, tm_resched, tm_prevRun, tm_lastRun,
                   tm_emptied, tmClient>>

(* The worker re-inserts a task when repeat or interval > 0. *)
TMIsRepeatingLoose(task) == task.repeat \/ task.interval > 0

(* task.repeat && task.interval > 0 *)
TMIsRepeating(task) == task.repeat /\ task.interval > 0

(* task.next_run = now + task.interval, "now" being the worker's local *)
TMNextRun(now, interval) == now + interval

(* From queue_.pop() to lock.unlock(): the worker removes the top of the   *)
(* queue, drops it if tasks_ no longer has the id, re-inserts a repeating  *)
(* task and erases a one-shot one (and its group when that becomes         *)
(* empty).  "top" is the queue's top, "task" the worker's copy of it and   *)
(* "now" the worker's local.                                               *)
TMFire(top, task, now) ==
    LET id == task.id
        queue1 == tm_queue \ {top}
    IN  IF id \notin DOMAIN tm_tasks
        THEN /\ tm_queue' = queue1
             /\ tm_pc' = "loop"
             /\ tm_task' = NoTask
             /\ tm_now' = 0
             /\ UNCHANGED <<tm_tasks, tm_groups, tm_timer_to_group,
                            tm_carried, tm_lateDequeue, tm_resched, tm_emptied>>
        ELSE /\ tm_pc' = "callback"
             /\ tm_task' = task
             /\ tm_now' = now
             /\ tm_carried' = top.next_run
             /\ tm_lateDequeue' = IF id \in tm_cancelled \cup tm_groupCancelled
                                  THEN tm_lateDequeue \cup {id}
                                  ELSE tm_lateDequeue
             /\ IF TMIsRepeating(task)
                THEN LET next == TMNextRun(now, task.interval)
                     IN  /\ tm_tasks' = [tm_tasks EXCEPT ![id].next_run = next]
                         /\ tm_queue' = queue1 \cup {[task EXCEPT !.next_run = next]}
                         /\ tm_resched' = [at |-> tm_clock, next_run |-> next,
                                           interval |-> task.interval]
                         /\ UNCHANGED <<tm_groups, tm_timer_to_group, tm_emptied>>
                ELSE LET inGroup == id \in DOMAIN tm_timer_to_group
                         g == tm_timer_to_group[id]
                         groups1 == [TMGroupRef(tm_groups, g) EXCEPT
                                        ![g] = TMRemoveId(@, id)]
                     IN  /\ tm_tasks' = TMErase(tm_tasks, {id})
                         /\ tm_queue' = queue1
                         /\ tm_timer_to_group' = TMErase(tm_timer_to_group, {id})
                         /\ tm_groups' = IF ~inGroup THEN tm_groups
                                         ELSE IF groups1[g] = <<>>
                                              THEN TMErase(groups1, {g})
                                              ELSE groups1
                         /\ tm_emptied' = TMStillEmpty(
                                IF inGroup THEN tm_emptied \cup {g}
                                           ELSE tm_emptied,
                                tm_groups')
                         /\ tm_resched' = NoResched

(* run(): the top of the queue is not due yet (wait_time > 0); the worker  *)
(* keeps a copy of it and of the clock and waits in cv_.wait_for           *)
TMWorkerPeek ==
    /\ tm_pc = "loop"
    /\ \E task \in TMTops(tm_queue) :
        /\ task.next_run > tm_clock
        /\ tm_task' = task
    /\ tm_now' = tm_clock
    /\ tm_pc' = "wait_for"
    /\ UNCHANGED notTM
    /\ UNCHANGED <<tm_tasks, tm_queue, tm_groups, tm_timer_to_group,
                   tm_carried, tm_fireCount, tm_lateStart, tm_lateDequeue,
                   tm_resched, tm_prevRun, tm_lastRun, tm_emptied, tmClient>>

(* run(): the top of the queue is due (wait_time = 0); it is popped in the *)
(* same critical section                                                   *)
TMWorkerFireNow ==
    /\ tm_pc = "loop"
    /\ \E task \in TMTops(tm_queue) :
        /\ task.next_run <= tm_clock
        /\ TMFire(task, task, tm_clock)
    /\ UNCHANGED notTM
    /\ UNCHANGED <<tm_fireCount, tm_lateStart, tm_prevRun, tm_lastRun, tmClient>>

(* cv_.wait_for returns true: the queue is empty or its top is no longer   *)
(* the task the worker copied; continue                                    *)
TMWorkerChanged ==
    /\ tm_pc = "wait_for"
    /\ \/ tm_queue = {}
       \/ \E top \in TMTops(tm_queue) :
            top.id # tm_task.id \/ top.next_run # tm_task.next_run
    /\ tm_pc' = "loop"
    /\ tm_task' = NoTask
    /\ tm_now' = 0
    /\ UNCHANGED notTM
    /\ UNCHANGED <<tm_tasks, tm_queue, tm_groups, tm_timer_to_group,
                   tm_carried, tm_fireCount, tm_lateStart, tm_lateDequeue,
                   tm_resched, tm_prevRun, tm_lastRun, tm_emptied, tmClient>>

(* cv_.wait_for times out with the predicate false: the top still has the  *)
(* copied id and next_run; it is popped, with "now" as read before the     *)
(* wait                                                                    *)
TMWorkerTimeout ==
    /\ tm_pc = "wait_for"
    /\ tm_clock >= tm_task.next_run
    /\ \E top \in TMTops(tm_queue) :
        /\ top.id = tm_task.id
        /\ top.next_run = tm_task.next_run
        /\ TMFire(top, tm_task, tm_now)
    /\ UNCHANGED notTM
    /\ UNCHANGED <<tm_fireCount, tm_lateStart, tm_prevRun, tm_lastRun, tmClient>>

(* callback(), outside the lock *)
TMWorkerCallback ==
    /\ tm_pc = "callback"
    /\ LET id == tm_task.id
       IN  /\ tm_fireCount' = IF id \in tm_everRepeat
                              THEN tm_fireCount
                              ELSE [tm_fireCount EXCEPT ![id] = TMCount(@)]
           /\ tm_lateStart' = IF id \in tm_cancelled \cup tm_groupCancelled
                              THEN [tm_lateStart EXCEPT ![id] = TMCount(@)]
                              ELSE tm_lateStart
    /\ tm_prevRun' = tm_lastRun
    /\ tm_lastRun' = tm_carried
    /\ tm_pc' = "loop"
    /\ tm_task' = NoTask
    /\ tm_now' = 0
    /\ tm_carried' = NoTime
    /\ tm_resched' = NoResched
    /\ UNCHANGED notTM
    /\ UNCHANGED <<tm_tasks, tm_queue, tm_groups, tm_timer_to_group,
                   tm_lateDequeue, tm_emptied, tmClient>>

TMNext ==
    \/ TMTick
    \/ TMCreateOnce
    \/ TMCreateRepeat
    \/ TMCancel
    \/ TMModify
    \/ TMClear
    \/ TMCreateGroup
    \/ TMAddToGroup
    \/ TMRemoveFromGroup
    \/ TMCancelGroup
    \/ TMWorkerIdle
    \/ TMWorkerWake
    \/ TMWorkerPeek
    \/ TMWorkerFireNow
    \/ TMWorkerChanged
    \/ TMWorkerTimeout
    \/ TMWorkerCallback

(***************************************************************************)
(* LockFreeMessageQueue: a ring of capacity_ + 1 atomic slots with head_   *)
(* and tail_, used by one producer thread and one consumer thread.  Every  *)
(* load, store and CAS of an atomic is one step.  clear() is a loop of     *)
(* tryPop and is covered by the consumer's tryPop calls.                   *)
(***************************************************************************)
LFMsgs == 1..LFMaxMsgs

(* (i + 1) % (capacity_ + 1) *)
LFSucc(i) == (i + 1) % (lf_capacity + 1)

LFInit ==
    /\ lf_capacity \in 1..LFMaxCapacity
    /\ lf_buffer = [i \in 0..lf_capacity |-> NoMsg]
    /\ lf_head = 0
    /\ lf_tail = 0
    /\ lf_shutdown = FALSE
    /\ lf_ppc = "idle"
    /\ lf_phead = 0
    /\ lf_ptail = 0
    /\ lf_pmsg = NoMsg
    /\ lf_cpc = "idle"
    /\ lf_chead = 0
    /\ lf_ctail = 0
    /\ lf_cmsg = NoMsg
    /\ lf_nextMsg = 1
    /\ lf_stored = 0
    /\ lf_returned = <<>>

(* push(message): if (isShutdown()) return; raw_msg = message.release() *)
LFPushCall ==
    /\ lf_ppc = "idle"
    /\ lf_nextMsg <= LFMaxMsgs
    /\ lf_nextMsg' = lf_nextMsg + 1
    /\ IF lf_shutdown
       THEN UNCHANGED <<lf_ppc, lf_pmsg>>
       ELSE /\ lf_pmsg' = lf_nextMsg
            /\ lf_ppc' = "push_load_head"
    /\ UNCHANGED notLF
    /\ UNCHANGED <<lf_capacity, lf_buffer, lf_head, lf_tail, lf_shutdown,
                   lf_phead, lf_ptail, lf_cpc, lf_chead, lf_ctail, lf_cmsg,
                   lf_stored, lf_returned>>

(* head = head_.load() *)
LFPushLoadHead ==
    /\ lf_ppc = "push_load_head"
    /\ lf_phead' = lf_head
    /\ lf_ppc' = "push_load_tail"
    /\ UNCHANGED notLF
    /\ UNCHANGED <<lf_capacity, lf_buffer, lf_head, lf_tail, lf_shutdown,
                   lf_ptail, lf_pmsg, lf_cpc, lf_chead, lf_ctail, lf_cmsg,
                   lf_nextMsg, lf_stored, lf_returned>>

(* tail = tail_.load(); if ((tail + 1) % (capacity_ + 1) == head) the      *)
(* queue is full.                                                          *)
LFPushLoadTail ==
    /\ lf_ppc = "push_load_tail"
    /\ lf_ptail' = lf_tail
    /\ lf_ppc' = IF LFSucc(lf_tail) = lf_phead THEN "push_full"
                 ELSE "push_load_slot"
    /\ UNCHANGED notLF
    /\ UNCHANGED <<lf_capacity, lf_buffer, lf_head, lf_tail, lf_shutdown,
                   lf_phead, lf_pmsg, lf_cpc, lf_chead, lf_ctail, lf_cmsg,
                   lf_nextMsg, lf_stored, lf_returned>>

(* Full: yield; if (isShutdown()) discard the message and return; else     *)
(* retry.                                                                  *)
LFPushFull ==
    /\ lf_ppc = "push_full"
    /\ IF lf_shutdown
       THEN lf_ppc' = "idle" /\ lf_pmsg' = NoMsg
       ELSE lf_ppc' = "push_load_head" /\ lf_pmsg' = lf_pmsg
    /\ UNCHANGED notLF
    /\ UNCHANGED <<lf_capacity, lf_buffer, lf_head, lf_tail, lf_shutdown,
                   lf_phead, lf_ptail, lf_cpc, lf_chead, lf_ctail, lf_cmsg,
                   lf_nextMsg, lf_stored, lf_returned>>

(* if (buffer_[tail].load() != nullptr) continue; *)
LFPushLoadSlot ==
    /\ lf_ppc = "push_load_slot"
    /\ lf_ppc' = IF lf_buffer[lf_ptail] = NoMsg THEN "push_store_slot"
                 ELSE "push_load_head"
    /\ UNCHANGED notLF
    /\ UNCHANGED <<lf_capacity, lf_buffer, lf_head, lf_tail, lf_shutdown,
                   lf_phead, lf_ptail, lf_pmsg, lf_cpc, lf_chead, lf_ctail,
                   lf_cmsg, lf_nextMsg, lf_stored, lf_returned>>

(* A push that goes on to publish tail_ without storing the message. *)
LFPushSkipStore ==
    /\ lf_ppc = "push_store_slot"
    /\ lf_ppc' = "push_store_tail"
    /\ UNCHANGED notLF
    /\ UNCHANGED <<lf_capacity, lf_buffer, lf_head, lf_tail, lf_shutdown,
                   lf_phead, lf_ptail, lf_pmsg, lf_cpc, lf_chead, lf_ctail,
                   lf_cmsg, lf_nextMsg, lf_stored, lf_returned>>

(* buffer_[tail].store(raw_msg) *)
LFPushStoreSlot ==
    /\ lf_ppc = "push_store_slot"
    /\ lf_buffer' = [lf_buffer EXCEPT ![lf_ptail] = lf_pmsg]
    /\ lf_ppc' = "push_store_tail"
    /\ UNCHANGED notLF
    /\ UNCHANGED <<lf_capacity, lf_head, lf_tail, lf_shutdown, lf_phead,
                   lf_ptail, lf_pmsg, lf_cpc, lf_chead, lf_ctail, lf_cmsg,
                   lf_nextMsg, lf_stored, lf_returned>>

(* tail_.store((tail + 1) % (capacity_ + 1)); return *)
LFPushStoreTail ==
    /\ lf_ppc = "push_store_tail"
    /\ lf_tail' = LFSucc(lf_ptail)
    /\ lf_stored' = lf_stored + 1
    /\ lf_pmsg' = NoMsg
    /\ lf_ppc' = "idle"
    /\ UNCHANGED notLF
    /\ UNCHANGED <<lf_capacity, lf_buffer, lf_head, lf_shutdown, lf_phead,
                   lf_ptail, lf_cpc, lf_chead, lf_ctail, lf_cmsg, lf_nextMsg,
                   lf_returned>>

(* tryPop() is called (directly, or from pop(), waitAndPop() or clear());  *)
(* head = head_.load()                                                     *)
LFPopLoadHead ==
    /\ lf_cpc \in {"idle", "pop_load_head"}
    /\ lf_chead' = lf_head
    /\ lf_cpc' = "pop_load_tail"
    /\ UNCHANGED notLF
    /\ UNCHANGED <<lf_capacity, lf_buffer, lf_head, lf_tail, lf_shutdown,
                   lf_ppc, lf_phead, lf_ptail, lf_pmsg, lf_ctail, lf_cmsg,
                   lf_nextMsg, lf_stored, lf_returned>>

(* tail = tail_.load(); if (head == tail) return nullptr *)
LFPopLoadTail ==
    /\ lf_cpc = "pop_load_tail"
    /\ lf_ctail' = lf_tail
    /\ lf_cpc' = IF lf_chead = lf_tail THEN "idle" ELSE "pop_load_slot"
    /\ UNCHANGED notLF
    /\ UNCHANGED <<lf_capacity, lf_buffer, lf_head, lf_tail, lf_shutdown,
                   lf_ppc, lf_phead, lf_ptail, lf_pmsg, lf_chead, lf_cmsg,
                   lf_nextMsg, lf_stored, lf_returned>>

(* msg = buffer_[head].load(); if (msg == nullptr) continue; *)
LFPopLoadSlot ==
    /\ lf_cpc = "pop_load_slot"
    /\ lf_cmsg' = lf_buffer[lf_chead]
    /\ lf_cpc' = IF lf_buffer[lf_chead] = NoMsg THEN "pop_load_head"
                 ELSE "pop_cas"
    /\ UNCHANGED notLF
    /\ UNCHANGED <<lf_capacity, lf_buffer, lf_head, lf_tail, lf_shutdown,
                   lf_ppc, lf_phead, lf_ptail, lf_pmsg, lf_chead, lf_ctail,
                   lf_nextMsg, lf_stored, lf_returned>>

(* head_.compare_exchange_strong(head, (head + 1) % (capacity_ + 1)):      *)
(* failure retries the loop.                                               *)
LFPopCas ==
    /\ lf_cpc = "pop_cas"
    /\ IF lf_head = lf_chead
       THEN /\ lf_head' = LFSucc(lf_chead)
            /\ lf_cpc' = "pop_store_null"
            /\ UNCHANGED <<lf_chead, lf_cmsg>>
       ELSE /\ lf_chead' = lf_head
            /\ lf_cmsg' = NoMsg
            /\ lf_cpc' = "pop_load_head"
            /\ UNCHANGED lf_head
    /\ UNCHANGED notLF
    /\ UNCHANGED <<lf_capacity, lf_buffer, lf_tail, lf_shutdown, lf_ppc,
                   lf_phead, lf_ptail, lf_pmsg, lf_ctail, lf_nextMsg,
                   lf_stored, lf_returned>>

(* buffer_[head].store(nullptr); return msg *)
LFPopStoreNull ==
    /\ lf_cpc = "pop_store_null"
    /\ lf_buffer' = [lf_buffer EXCEPT ![lf_chead] = NoMsg]
    /\ lf_returned' = Append(lf_returned, lf_cmsg)
    /\ lf_cmsg' = NoMsg
    /\ lf_cpc' = "idle"
    /\ UNCHANGED notLF
    /\ UNCHANGED <<lf_capacity, lf_head, lf_tail, lf_shutdown, lf_ppc,
                   lf_phead, lf_ptail, lf_pmsg, lf_chead, lf_ctail,
                   lf_nextMsg, lf_stored>>

(* shutdown(): shutdown_.store(true) *)
LFShutdown ==
    /\ ~lf_shutdown
    /\ lf_shutdown' = TRUE
    /\ UNCHANGED notLF
    /\ UNCHANGED <<lf_capacity, lf_buffer, lf_head, lf_tail, lf_ppc, lf_phead,
                   lf_ptail, lf_pmsg, lf_cpc, lf_chead, lf_ctail, lf_cmsg,
                   lf_nextMsg, lf_stored, lf_returned>>

LFNext ==
    \/ LFPushCall
    \/ LFPushLoadHead
    \/ LFPushLoadTail
    \/ LFPushFull
    \/ LFPushLoadSlot
    \/ LFPushStoreSlot
    \/ LFPushStoreTail
    \/ LFPopLoadHead
    \/ LFPopLoadTail
    \/ LFPopLoadSlot
    \/ LFPopCas
    \/ LFPopStoreNull
    \/ LFShutdown

(***************************************************************************)
(* PriorityMessageQueue: a std::priority_queue of (priority, message)      *)
(* pairs under one mutex.  An operation is one step, taken when its        *)
(* condition variable's predicate lets it through: a push blocked on a     *)
(* full queue, or a pop blocked on an empty one, takes its step once the   *)
(* predicate holds.  The heap does not order equal priorities, so the top  *)
(* is any message with no message of higher priority in the queue.         *)
(***************************************************************************)
PQMsgs == 1..PQMaxMsgs
PQCategories == 1..PQMaxCategory

PQInit ==
    /\ pq_max_size \in 0..PQMaxSize
    /\ pq_queue = {}
    /\ pq_priority = [m \in PQMsgs |-> 0]
    /\ pq_shutdown = FALSE
    /\ pq_nextMsg = 1
    /\ pq_returned = <<>>
    /\ pq_present = [m \in PQMsgs |-> {}]

(* calculatePriority: static_cast<int>(message.getCategory()), a u8 *)
PQCalculatePriority(category) == category % 256

(* A comparator that orders the heap the other way round. *)
PQPriorityCompareGreater(a, b) == a > b

(* PriorityCompare::operator(): a.first < b.first *)
PQPriorityCompare(a, b) == a < b

(* A top() that may return any element of the heap. *)
PQTopsAny == pq_queue

(* queue_.top(): with comparator comp, an element that is not comp-before  *)
(* any other element                                                       *)
PQTops ==
    {m \in pq_queue :
        \A o \in pq_queue : ~PQPriorityCompare(pq_priority[m], pq_priority[o])}

(* push(message): discarded if shutdown_; waits while the bounded queue is *)
(* full; then queue_.push(make_pair(calculatePriority(message), message))  *)
PQPush(category) ==
    /\ pq_nextMsg <= PQMaxMsgs
    /\ pq_shutdown \/ ~(pq_max_size > 0 /\ Cardinality(pq_queue) >= pq_max_size)
    /\ pq_nextMsg' = pq_nextMsg + 1
    /\ IF pq_shutdown
       THEN UNCHANGED <<pq_queue, pq_priority, pq_present>>
       ELSE /\ pq_queue' = pq_queue \cup {pq_nextMsg}
            /\ pq_priority' = [pq_priority EXCEPT
                                  ![pq_nextMsg] = PQCalculatePriority(category)]
            /\ pq_present' = [pq_present EXCEPT ![pq_nextMsg] = pq_queue]
    /\ UNCHANGED notPQ
    /\ UNCHANGED <<pq_max_size, pq_shutdown, pq_returned>>

(* top = queue_.top(); queue_.pop(); return top.second *)
PQTake ==
    \E m \in PQTops :
        /\ pq_queue' = pq_queue \ {m}
        /\ pq_returned' = Append(pq_returned, m)

(* pop(): waits for !queue_.empty() || shutdown_; nullptr if empty *)
PQPop ==
    /\ pq_queue # {} \/ pq_shutdown
    /\ IF pq_queue = {} THEN UNCHANGED <<pq_queue, pq_returned>> ELSE PQTake
    /\ UNCHANGED notPQ
    /\ UNCHANGED <<pq_max_size, pq_priority, pq_shutdown, pq_nextMsg,
                   pq_present>>

(* tryPop(): nullptr if empty, else the top.  waitAndPop(timeout) ends the *)
(* same way when its wait_for returns: nullptr on timeout or if the queue  *)
(* is empty, else the top.                                                 *)
PQTryPop ==
    /\ IF pq_queue = {} THEN UNCHANGED <<pq_queue, pq_returned>> ELSE PQTake
    /\ UNCHANGED notPQ
    /\ UNCHANGED <<pq_max_size, pq_priority, pq_shutdown, pq_nextMsg,
                   pq_present>>

(* clear(): swap queue_ with an empty heap *)
PQClear ==
    /\ pq_queue # {}
    /\ pq_queue' = {}
    /\ UNCHANGED notPQ
    /\ UNCHANGED <<pq_max_size, pq_priority, pq_shutdown, pq_nextMsg,
                   pq_returned, pq_present>>

(* shutdown(): shutdown_ = true; notify_all on both condition variables *)
PQShutdown ==
    /\ ~pq_shutdown
    /\ pq_shutdown' = TRUE
    /\ UNCHANGED notPQ
    /\ UNCHANGED <<pq_max_size, pq_queue, pq_priority, pq_nextMsg,
                   pq_returned, pq_present>>

PQNext ==
    \/ \E category \in PQCategories : PQPush(category)
    \/ PQPop
    \/ PQTryPop
    \/ PQClear
    \/ PQShutdown

(***************************************************************************)
(* TcpSession.  The write path: threads call send(), which builds the      *)
(* frame and, under write_mutex_, queues it and starts an async_write if   *)
(* none is in progress; the reactor runs handleWrite when a write          *)
(* completes.  The read path: async_read of the 7-byte header, then of the *)
(* body; the peer's bytes arrive in ts_in.  The service's callbacks are    *)
(* the logs ts_delivered and ts_errors.                                    *)
(***************************************************************************)
TSSenders == 1..TSSenderThreads

(* MessageCategoryType is u8, MessageIdType is u16: sample values *)
TSCategories == {1, 255}
TSIds == {1, 258}
TSBytes == {0, 255}
TSBodies == UNION {[1..n -> TSBytes] : n \in 0..TSMaxBodyLen}

(* The messages the local threads send: one without and one with a body *)
TSSendMessages ==
    {[category |-> 1, id |-> 258, body |-> <<>>],
     [category |-> 255, id |-> 1, body |-> <<0, 255>>]}

(* HEADER_SIZE = sizeof(u8) + sizeof(u16) + sizeof(u32) *)
HEADER_SIZE == 1 + 2 + 4

NoFrame == [n |-> 0, bytes |-> <<>>]

(* memcpy of an n-byte unsigned integer: its bytes, least significant      *)
(* first (the byte order of the hosts the code is built for)               *)
RECURSIVE TSEncodeLE(_, _)
TSEncodeLE(x, n) ==
    IF n = 0 THEN <<>> ELSE <<x % 256>> \o TSEncodeLE(x \div 256, n - 1)

(* memcpy from the buffer into an unsigned integer *)
RECURSIVE TSDecodeLE(_)
TSDecodeLE(b) ==
    IF b = <<>> THEN 0 ELSE b[1] + 256 * TSDecodeLE(Tail(b))

(* send(): buffer = category, id, body_size = static_cast<u32>(size), then *)
(* body_size bytes of the body; the u32 is what its four bytes hold        *)
TSFrame(category, id, body) ==
    LET size == TSEncodeLE(Len(body), 4)
    IN TSEncodeLE(category, 1) \o TSEncodeLE(id, 2) \o size
           \o SubSeq(body, 1, TSDecodeLE(size))

(* The header fields as handleReadHeader and handleReadBody extract them *)
TSCategoryOf(buffer) == TSDecodeLE(SubSeq(buffer, 1, 1))

(* A reader that takes the id from offset 0. *)
TSIdAtOffset0(buffer) == TSDecodeLE(SubSeq(buffer, 1, 2))

TSIdOf(buffer) == TSDecodeLE(SubSeq(buffer, 2, 3))

TSBodySizeOf(buffer) == TSDecodeLE(SubSeq(buffer, 4, 7))

TSInit ==
    /\ ts_read_buffer_size \in 1..TSMaxReadBuffer
    /\ ts_state = "DISCONNECTED"
    /\ ts_started = FALSE
    /\ ts_write_queue = <<>>
    /\ ts_writing = 0
    /\ ts_spc = [t \in TSSenders |-> "idle"]
    /\ ts_sbuf = [t \in TSSenders |-> NoFrame]
    /\ ts_nextSend = 1
    /\ ts_enqueued = <<>>
    /\ ts_handed = <<>>
    /\ ts_in = <<>>
    /\ ts_peerFrames = <<>>
    /\ ts_reading = "none"
    /\ ts_read_buffer = [i \in 1..HEADER_SIZE |-> 0]
    /\ ts_decoded = <<>>
    /\ ts_delivered = <<>>
    /\ ts_errors = <<>>

TSClosed(state) == state \in {"DISCONNECTED", "CLOSING"}

(* start(): state_ = CONNECTED; readHeader() *)
TSStart ==
    /\ ~ts_started
    /\ ts_started' = TRUE
    /\ ts_state' = "CONNECTED"
    /\ ts_reading' = "header"
    /\ UNCHANGED notTS
    /\ UNCHANGED <<ts_read_buffer_size, ts_write_queue, ts_writing, ts_spc,
                   ts_sbuf, ts_nextSend, ts_enqueued, ts_handed, ts_in,
                   ts_peerFrames, ts_read_buffer, ts_decoded, ts_delivered,
                   ts_errors>>

(* close(): nothing if CLOSING or DISCONNECTED; else the socket is closed  *)
(* and state_ ends DISCONNECTED                                            *)
TSClose ==
    /\ ~TSClosed(ts_state)
    /\ ts_state' = "DISCONNECTED"
    /\ UNCHANGED notTS
    /\ UNCHANGED <<ts_read_buffer_size, ts_started, ts_write_queue, ts_writing,
                   ts_spc, ts_sbuf, ts_nextSend, ts_enqueued, ts_handed, ts_in,
                   ts_peerFrames, ts_reading, ts_read_buffer, ts_decoded,
                   ts_delivered, ts_errors>>

(* send(message) up to the lock: refused unless CONNECTED or               *)
(* AUTHENTICATED; message.serialize() may fail; else the frame is built.   *)
TSSendCall(t, message) ==
    /\ ts_spc[t] = "idle"
    /\ ts_nextSend <= TSMaxSends
    /\ ts_nextSend' = ts_nextSend + 1
    /\ \/ /\ ts_state \in {"CONNECTED", "AUTHENTICATED"}
          /\ ts_sbuf' = [ts_sbuf EXCEPT
                ![t] = [n |-> ts_nextSend,
                        bytes |-> TSFrame(message.category, message.id,
                                          message.body)]]
          /\ ts_spc' = [ts_spc EXCEPT ![t] = "lock"]
       \/ UNCHANGED <<ts_sbuf, ts_spc>>
    /\ UNCHANGED notTS
    /\ UNCHANGED <<ts_read_buffer_size, ts_state, ts_started, ts_write_queue,
                   ts_writing, ts_enqueued, ts_handed, ts_in, ts_peerFrames,
                   ts_reading, ts_read_buffer, ts_decoded, ts_delivered,
                   ts_errors>>

(* A test that never sees a write in progress. *)
TSWriteInProgressNever(queue) == FALSE

(* bool write_in_progress = !write_queue_.empty() *)
TSWriteInProgress(queue) == queue # <<>>

(* writeMessage(): nothing if DISCONNECTED or CLOSING, else async_write of *)
(* write_queue_.front(); completed is 1 when called from handleWrite, the  *)
(* completion handler of the previous write                                *)
TSWriteMessage(queue, completed) ==
    IF TSClosed(ts_state)
    THEN /\ ts_writing' = ts_writing - completed
         /\ ts_handed' = ts_handed
    ELSE /\ ts_writing' = ts_writing - completed + 1
         /\ ts_handed' = Append(ts_handed, queue[1].n)

(* send() under write_mutex_: push the buffer; writeMessage() if no write  *)
(* was in progress; return                                                 *)
TSSendLocked(t) ==
    /\ ts_spc[t] = "lock"
    /\ ts_write_queue' = Append(ts_write_queue, ts_sbuf[t])
    /\ ts_enqueued' = Append(ts_enqueued, ts_sbuf[t].n)
    /\ ts_state' = ts_state
    /\ IF TSWriteInProgress(ts_write_queue)
       THEN UNCHANGED <<ts_writing, ts_handed>>
       ELSE TSWriteMessage(ts_write_queue', 0)
    /\ ts_sbuf' = [ts_sbuf EXCEPT ![t] = NoFrame]
    /\ ts_spc' = [ts_spc EXCEPT ![t] = "idle"]
    /\ UNCHANGED notTS
    /\ UNCHANGED <<ts_read_buffer_size, ts_started, ts_nextSend, ts_in,
                   ts_peerFrames, ts_reading, ts_read_buffer, ts_decoded,
                   ts_delivered, ts_errors>>

(* handleWrite(no error): under write_mutex_, pop the sent frame and       *)
(* writeMessage() if the queue is not empty                                *)
TSHandleWrite ==
    /\ ts_writing > 0
    /\ ts_write_queue' = Tail(ts_write_queue)
    /\ ts_state' = ts_state
    /\ IF Tail(ts_write_queue) # <<>>
       THEN TSWriteMessage(Tail(ts_write_queue), 1)
       ELSE ts_writing' = ts_writing - 1 /\ ts_handed' = ts_handed
    /\ UNCHANGED notTS
    /\ UNCHANGED <<ts_read_buffer_size, ts_started, ts_spc, ts_sbuf,
                   ts_nextSend, ts_enqueued, ts_in, ts_peerFrames, ts_reading,
                   ts_read_buffer, ts_decoded, ts_delivered, ts_errors>>

(* handleWrite(error): report NETWORK_ERROR, close(), return *)
TSHandleWriteError ==
    /\ ts_writing > 0
    /\ ts_writing' = ts_writing - 1
    /\ ts_errors' = Append(ts_errors, "NETWORK_ERROR")
    /\ ts_state' = "DISCONNECTED"
    /\ UNCHANGED notTS
    /\ UNCHANGED <<ts_read_buffer_size, ts_started, ts_write_queue, ts_spc,
                   ts_sbuf, ts_nextSend, ts_enqueued, ts_handed, ts_in,
                   ts_peerFrames, ts_reading, ts_read_buffer, ts_decoded,
                   ts_delivered>>

TSWriteNext ==
    \/ TSStart
    \/ TSClose
    \/ \E t \in TSSenders :
          \/ \E message \in TSSendMessages : TSSendCall(t, message)
          \/ TSSendLocked(t)
    \/ TSHandleWrite
    \/ TSHandleWriteError

(* The peer, running the same send(), writes a frame to the connection. *)
TSPeerSend(category, id, body) ==
    /\ Len(ts_peerFrames) < TSMaxPeerFrames
    /\ ts_in' = ts_in \o TSFrame(category, id, body)
    /\ ts_peerFrames' = Append(ts_peerFrames,
                           [category |-> category, id |-> id, body |-> body])
    /\ UNCHANGED notTS
    /\ UNCHANGED <<ts_read_buffer_size, ts_state, ts_started, ts_write_queue,
                   ts_writing, ts_spc, ts_sbuf, ts_nextSend, ts_enqueued,
                   ts_handed, ts_reading, ts_read_buffer, ts_decoded,
                   ts_delivered, ts_errors>>

(* A readHeader() that never starts the next read. *)
TSReadHeaderStops == "none"

(* readHeader(): nothing if DISCONNECTED or CLOSING, else async_read of    *)
(* HEADER_SIZE bytes                                                       *)
TSReadHeader == IF TSClosed(ts_state) THEN "none" ELSE "header"

(* createMessage and deserialize: the message is delivered, or the factory *)
(* has no creator (or deserialize fails) and INVALID_MESSAGE is reported;  *)
(* then read_buffer_.resize(HEADER_SIZE); readHeader()                     *)
TSDispatch(buffer) ==
    /\ ts_decoded' = Append(ts_decoded,
                        [category |-> TSCategoryOf(buffer),
                         id |-> TSIdOf(buffer),
                         body_size |-> TSBodySizeOf(buffer),
                         body |-> SubSeq(buffer, HEADER_SIZE + 1, Len(buffer))])
    /\ \/ /\ ts_delivered' = Append(ts_delivered,
                                [category |-> TSCategoryOf(buffer),
                                 id |-> TSIdOf(buffer),
                                 body |-> SubSeq(buffer, HEADER_SIZE + 1,
                                                 Len(buffer))])
          /\ ts_errors' = ts_errors
       \/ /\ ts_errors' = Append(ts_errors, "INVALID_MESSAGE")
          /\ ts_delivered' = ts_delivered
    /\ ts_read_buffer' = SubSeq(buffer, 1, HEADER_SIZE)
    /\ ts_reading' = TSReadHeader

(* handleReadHeader(no error): extract category, id and body_size; if      *)
(* body_size > 0, readBody(body_size), which resizes read_buffer_ to       *)
(* HEADER_SIZE + body_size and starts the async_read of the body (nothing  *)
(* if DISCONNECTED or CLOSING); else create and deliver the message.       *)
TSHandleReadHeader ==
    /\ ts_reading = "header"
    /\ Len(ts_in) >= HEADER_SIZE
    /\ ts_in' = SubSeq(ts_in, HEADER_SIZE + 1, Len(ts_in))
    /\ LET buffer == SubSeq(ts_in, 1, HEADER_SIZE)
       IN IF TSBodySizeOf(buffer) > 0
          THEN /\ IF TSClosed(ts_state)
                  THEN ts_read_buffer' = buffer /\ ts_reading' = "none"
                  ELSE /\ ts_read_buffer' =
                            buffer \o [i \in 1..TSBodySizeOf(buffer) |-> 0]
                       /\ ts_reading' = "body"
               /\ UNCHANGED <<ts_decoded, ts_delivered, ts_errors>>
          ELSE TSDispatch(buffer)
    /\ UNCHANGED notTS
    /\ UNCHANGED <<ts_read_buffer_size, ts_state, ts_started, ts_write_queue,
                   ts_writing, ts_spc, ts_sbuf, ts_nextSend, ts_enqueued,
                   ts_handed, ts_peerFrames>>

(* handleReadBody(no error): the body has been read into read_buffer_      *)
(* after the header; extract the header fields again, create the message   *)
(* and deserialize the body bytes.                                         *)
TSHandleReadBody ==
    /\ ts_reading = "body"
    /\ Len(ts_in) >= Len(ts_read_buffer) - HEADER_SIZE
    /\ LET size == Len(ts_read_buffer) - HEADER_SIZE
       IN /\ ts_in' = SubSeq(ts_in, size + 1, Len(ts_in))
          /\ TSDispatch(SubSeq(ts_read_buffer, 1, HEADER_SIZE)
                            \o SubSeq(ts_in, 1, size))
    /\ UNCHANGED notTS
    /\ UNCHANGED <<ts_read_buffer_size, ts_state, ts_started, ts_write_queue,
                   ts_writing, ts_spc, ts_sbuf, ts_nextSend, ts_enqueued,
                   ts_handed, ts_peerFrames>>

(* handleReadHeader(error) / handleReadBody(error): report NETWORK_ERROR,  *)
(* close(), return                                                         *)
TSReadError ==
    /\ ts_reading # "none"
    /\ ts_reading' = "none"
    /\ ts_errors' = Append(ts_errors, "NETWORK_ERROR")
    /\ ts_state' = "DISCONNECTED"
    /\ UNCHANGED notTS
    /\ UNCHANGED <<ts_read_buffer_size, ts_started, ts_write_queue, ts_writing,
                   ts_spc, ts_sbuf, ts_nextSend, ts_enqueued, ts_handed, ts_in,
                   ts_peerFrames, ts_read_buffer, ts_decoded, ts_delivered>>

TSReadNext ==
    \/ TSStart
    \/ TSClose
    \/ \E category \in TSCategories, id \in TSIds, body \in TSBodies :
          TSPeerSend(category, id, body)
    \/ TSHandleReadHeader
    \/ TSHandleReadBody
    \/ TSReadError

(***************************************************************************)
(* NetService and the life of one accepted TcpSession, registered in the   *)
(* session table.  close() may be called on the reactor thread (read and   *)
(* write completions, handlers) and on the service worker (idle sweep,     *)
(* handlers); its loads and stores of the atomic state_ are separate       *)
(* steps, removeSession runs under sessions_mutex_.  Time is in            *)
(* milliseconds and passes with the iterations of the worker loop.         *)
(***************************************************************************)
NSThreads == {"reactor", "worker"}

NSSessionId == 1

(* BaseService::run: waitAndPop(std::chrono::milliseconds(100)) *)
NSWaitTimeout == 100

(* checkIdleSessions: if (elapsed_ms < 1000) return *)
NSSweepPeriod == 1000

(* the time one iteration of the worker loop takes: the waitAndPop timeout *)
(* on an idle queue, or longer when the handlers are slow                  *)
NSElapsed == {NSWaitTimeout, NSSweepPeriod}

(* last_update_time, the steady clock at the end of the last iteration of  *)
(* the worker loop, is kept modulo three iterations                        *)
NSClockModulus == 3 * NSWaitTimeout

(* after handleAccept: start() has run and addSession has registered it *)
NSInit ==
    /\ ns_idle_timeout_ms \in {0, NSIdleTimeoutMs}
    /\ ns_state = "CONNECTED"
    /\ ns_sessions = {NSSessionId}
    /\ ns_idle_time = 0
    /\ ns_pc = [t \in NSThreads |-> "idle"]
    /\ ns_idle_sessions = {}
    /\ ns_events = <<>>
    /\ ns_closes = 0
    /\ ns_results = <<>>
    /\ ns_last_update_time = 0

(* close(): if state_ is CLOSING or DISCONNECTED return success *)
NSCloseEnter(t) ==
    IF ns_state \in {"CLOSING", "DISCONNECTED"}
    THEN /\ ns_pc' = [ns_pc EXCEPT ![t] = "idle"]
         /\ ns_results' = Append(ns_results, "Success")
    ELSE /\ ns_pc' = [ns_pc EXCEPT ![t] = "set_closing"]
         /\ ns_results' = ns_results

(* a thread calls close() *)
NSCloseCall(t) ==
    /\ ns_pc[t] = "idle"
    /\ ns_closes < NSMaxCloses
    /\ ns_closes' = ns_closes + 1
    /\ NSCloseEnter(t)
    /\ UNCHANGED notNS
    /\ UNCHANGED <<ns_last_update_time, ns_idle_timeout_ms, ns_state, ns_sessions, ns_idle_time,
                   ns_idle_sessions, ns_events>>

(* state_ = SessionState::CLOSING *)
NSCloseSetClosing(t) ==
    /\ ns_pc[t] = "set_closing"
    /\ ns_state' = "CLOSING"
    /\ ns_pc' = [ns_pc EXCEPT ![t] = "socket"]
    /\ UNCHANGED notNS
    /\ UNCHANGED <<ns_last_update_time, ns_idle_timeout_ms, ns_sessions, ns_idle_time,
                   ns_idle_sessions, ns_events, ns_closes, ns_results>>

(* socket_->shutdown, socket_->close; state_ = SessionState::DISCONNECTED *)
NSCloseSocket(t) ==
    /\ ns_pc[t] = "socket"
    /\ ns_state' = "DISCONNECTED"
    /\ ns_pc' = [ns_pc EXCEPT ![t] = "remove"]
    /\ UNCHANGED notNS
    /\ UNCHANGED <<ns_last_update_time, ns_idle_timeout_ms, ns_sessions, ns_idle_time,
                   ns_idle_sessions, ns_events, ns_closes, ns_results>>

(* A lookup that finds the session whether or not it is in the table. *)
NSFindAlways(sessions, id) == TRUE

(* sessions_.find(id) != sessions_.end() *)
NSFind(sessions, id) == id \in sessions

(* service_->removeSessionById(id_): under sessions_mutex_, if the session *)
(* is found, erase it and call onSessionClosed; the result is ignored and  *)
(* close() returns success                                                 *)
NSCloseRemove(t) ==
    /\ ns_pc[t] = "remove"
    /\ IF NSFind(ns_sessions, NSSessionId)
       THEN /\ ns_sessions' = ns_sessions \ {NSSessionId}
            /\ ns_events' = Append(ns_events, "on_closed")
       ELSE UNCHANGED <<ns_sessions, ns_events>>
    /\ ns_pc' = [ns_pc EXCEPT ![t] = "idle"]
    /\ ns_results' = Append(ns_results, "Success")
    /\ UNCHANGED notNS
    /\ UNCHANGED <<ns_last_update_time, ns_idle_timeout_ms, ns_state, ns_idle_time,
                   ns_idle_sessions, ns_closes>>

(* a read completes on the reactor: resetIdleTimer() *)
NSActivity ==
    /\ ns_pc["reactor"] = "idle"
    /\ ns_state = "CONNECTED"
    /\ ns_idle_time > 0
    /\ ns_idle_time' = 0
    /\ UNCHANGED notNS
    /\ UNCHANGED <<ns_last_update_time, ns_idle_timeout_ms, ns_state, ns_sessions, ns_pc,
                   ns_idle_sessions, ns_events, ns_closes, ns_results>>

(* getIdleTime() after elapsed more milliseconds without activity *)
NSIdleTimeAfter(elapsed) ==
    IF ns_idle_time + elapsed > NSMaxIdleTime
    THEN NSMaxIdleTime
    ELSE ns_idle_time + elapsed

(* checkIdleSessions(elapsed_ms), first half: nothing if idle_timeout_ms   *)
(* is 0 or elapsed_ms < 1000; else, under sessions_mutex_, collect the     *)
(* sessions that are CONNECTED or AUTHENTICATED and idle for more than     *)
(* idle_timeout_ms                                                         *)
NSIdleScan(elapsed) ==
    IF ns_idle_timeout_ms = 0 \/ elapsed < NSSweepPeriod
    THEN {}
    ELSE {id \in ns_sessions :
             /\ ns_state \in {"CONNECTED", "AUTHENTICATED"}
             /\ NSIdleTimeAfter(elapsed) > ns_idle_timeout_ms}

(* one iteration of BaseService::run on an empty queue: waitAndPop, then   *)
(* onUpdate(elapsed) -> checkIdleSessions(elapsed); last_update_time = now *)
NSWorkerLoop(elapsed) ==
    /\ ns_pc["worker"] = "idle"
    /\ ns_idle_time' = NSIdleTimeAfter(elapsed)
    /\ ns_idle_sessions' = NSIdleScan(elapsed)
    /\ ns_pc' = [ns_pc EXCEPT
          !["worker"] = IF NSIdleScan(elapsed) = {} THEN "idle" ELSE "sweep"]
    /\ UNCHANGED notNS
    /\ ns_last_update_time' = (ns_last_update_time + elapsed) % NSClockModulus
    /\ UNCHANGED <<ns_idle_timeout_ms, ns_state, ns_sessions, ns_events,
                   ns_closes, ns_results>>

(* checkIdleSessions, second half, outside the lock: onSessionIdle(session) *)
(* and session->close()                                                    *)
NSIdleHandle ==
    /\ ns_pc["worker"] = "sweep"
    /\ ns_events' = Append(ns_events, "on_idle")
    /\ ns_idle_sessions' = {}
    /\ NSCloseEnter("worker")
    /\ UNCHANGED notNS
    /\ UNCHANGED <<ns_last_update_time, ns_idle_timeout_ms, ns_state, ns_sessions, ns_idle_time,
                   ns_closes>>

NSNext ==
    \/ \E t \in NSThreads :
          \/ NSCloseCall(t)
          \/ NSCloseSetClosing(t)
          \/ NSCloseSocket(t)
          \/ NSCloseRemove(t)
    \/ NSActivity
    \/ \E elapsed \in NSElapsed : NSWorkerLoop(elapsed)
    \/ NSIdleHandle

(***************************************************************************)
(* BaseService registries (src/src/core/service.cpp).  The handler table   *)
(* maps makeHandlerKey(category, id) to a handler; the module registry     *)
(* maps a name to a module.  registerMessageHandler runs under             *)
(* handlers_mutex_ and registerModuleWithName under modules_mutex_: each   *)
(* is one step.  A module's init() and start() succeed or fail.            *)
(***************************************************************************)
SXCategories == {1, 2}
SXIds == {258}
SXHandlers == {"null", "h1"}
SXModuleNames == {"", "a", "b"}

(* the shared_ptr passed to registerModule: null, or a module with a name  *)
(* whose init() and start() succeed or not                                 *)
SXModules ==
    [null : BOOLEAN, name : SXModuleNames, initOk : BOOLEAN, startOk : BOOLEAN]

SXNoCall ==
    [null |-> TRUE, name |-> "", running |-> FALSE, before |-> {},
     result |-> "none", calls |-> <<>>]

SXInit ==
    /\ sx_handlers = {}
    /\ sx_hresult = "none"
    /\ sx_modules = {}
    /\ sx_reg = SXNoCall

(* makeHandlerKey: (u32(category) << 16) | u32(id) *)
SXMakeHandlerKey(category, id) == category * 65536 + id

SXKeys(handlers) == {h.key : h \in handlers}

(* registerMessageHandler(category, id, handler): a null handler and a key *)
(* that is already registered are refused; else the handler is inserted.   *)
(* running_ is not looked at.                                              *)
SVRegisterMessageHandler(category, id, handler) ==
    /\ ~sv_crashed
    /\ IF handler = "null"
       THEN sx_hresult' = "INVALID_ARGUMENT" /\ sx_handlers' = sx_handlers
       ELSE IF SXMakeHandlerKey(category, id) \in SXKeys(sx_handlers)
       THEN /\ sx_hresult' = "HANDLER_ALREADY_REGISTERED"
            /\ sx_handlers' = sx_handlers
       ELSE /\ sx_hresult' = "Success"
            /\ sx_handlers' = sx_handlers \cup
                  {[key |-> SXMakeHandlerKey(category, id), handler |-> handler]}
    /\ UNCHANGED notSX
    /\ UNCHANGED <<sx_modules, sx_reg>>

(* A registry that keeps the module. *)
SXKeep(modules, name) == modules \cup {name}

(* modules_.erase(name) *)
SXErase(modules, name) == modules \ {name}

(* registerModule(module) -> registerModuleWithName(module->getName(),     *)
(* module): INVALID_ARGUMENT for a null module or an empty name,           *)
(* MODULE_ALREADY_REGISTERED for a name in use; else insert, init() (on    *)
(* error erase and return it), and if running_ start() (on error stop(),   *)
(* erase and return it).                                                   *)
SVRegisterModule(module) ==
    /\ ~sv_crashed
    /\ LET call == [null |-> module.null, name |-> module.name,
                    running |-> sv_running, before |-> sx_modules]
           done(result, calls, modules) ==
               /\ sx_modules' = modules
               /\ sx_reg' = [null |-> call.null, name |-> call.name,
                             running |-> call.running, before |-> call.before,
                             result |-> result, calls |-> calls]
       IN IF module.null \/ module.name = ""
          THEN done("INVALID_ARGUMENT", <<>>, sx_modules)
          ELSE IF module.name \in sx_modules
          THEN done("MODULE_ALREADY_REGISTERED", <<>>, sx_modules)
          ELSE IF ~module.initOk
          THEN done("init error", <<"init">>,
                    SXErase(sx_modules \cup {module.name}, module.name))
          ELSE IF sv_running /\ ~module.startOk
          THEN done("start error", <<"init", "start", "stop">>,
                    SXErase(sx_modules \cup {module.name}, module.name))
          ELSE done("Success",
                    IF sv_running THEN <<"init", "start">> ELSE <<"init">>,
                    sx_modules \cup {module.name})
    /\ UNCHANGED notSX
    /\ UNCHANGED <<sx_handlers, sx_hresult>>

SXNext ==
    \/ SVInitCall
    \/ SVStartCall
    \/ SVStartSpawn
    \/ SVStartOk
    \/ SVStartFail
    \/ SVStartJoin
    \/ SVStopCall
    \/ SVStopShutdown
    \/ SVStopFail
    \/ SVStopOk
    \/ SVStopJoin
    \/ SVWorkerCheck
    \/ SVWorkerTimeout
    \/ \E category \in SXCategories, id \in SXIds, handler \in SXHandlers :
          SVRegisterMessageHandler(category, id, handler)
    \/ \E module \in SXModules : SVRegisterModule(module)

(***************************************************************************)
(* Module dependencies (src/src/module/module.cpp).  dependencies_ maps a  *)
(* module name to the vector of the names it depends on.                   *)
(* Module::addDependency looks the dependency up in the service, appends   *)
(* it, asks hasCircularDependency and, on a cycle, clears the module's     *)
(* list: three critical sections of the manager's mutex_, so calls on      *)
(* different threads interleave between them.                              *)
(***************************************************************************)
MDThreads == 1..MDCallers

MDNames == {"a", "b", "c"}

MDNoArg == [module |-> "", dependency |-> ""]

MDInit ==
    /\ md_registered \in {MDNames, MDNames \ {"c"}}
    /\ md_dependencies = [n \in MDNames |-> <<>>]
    /\ md_pc = [t \in MDThreads |-> "idle"]
    /\ md_arg = [t \in MDThreads |-> MDNoArg]
    /\ md_result = [t \in MDThreads |-> "none"]
    /\ md_calls = 0

MDDependsOn(dependencies, module) ==
    {dependencies[module][k] : k \in 1..Len(dependencies[module])}

(* A check that only finds a module that depends on itself directly. *)
MDSelfDependencyOnly(dependencies, module, visited) ==
    module \in MDDependsOn(dependencies, module)

(* hasCircularDependencyImpl(module, visited): true if module is on the    *)
(* path being explored, else explore its dependencies with module on the   *)
(* path                                                                    *)
RECURSIVE MDHasCircularDependencyImpl(_, _, _)
MDHasCircularDependencyImpl(dependencies, module, visited) ==
    \/ module \in visited
    \/ \E dep \in MDDependsOn(dependencies, module) :
          MDHasCircularDependencyImpl(dependencies, dep, visited \cup {module})

(* m.addDependency(dependency_name) on a module m of the service:          *)
(* MODULE_NOT_FOUND if the service has no module of that name; else        *)
(* ModuleDependencyManager::addDependency appends it                       *)
MDAddDependency(t, module, dependency) ==
    /\ md_pc[t] = "idle"
    /\ module \in md_registered
    /\ md_calls < MDMaxCalls
    /\ md_calls' = md_calls + 1
    /\ md_arg' = [md_arg EXCEPT
          ![t] = [module |-> module, dependency |-> dependency]]
    /\ IF dependency \notin md_registered
       THEN /\ md_result' = [md_result EXCEPT ![t] = "MODULE_NOT_FOUND"]
            /\ UNCHANGED <<md_dependencies, md_pc>>
       ELSE /\ md_dependencies' = [md_dependencies EXCEPT
                  ![module] = Append(@, dependency)]
            /\ md_pc' = [md_pc EXCEPT ![t] = "check"]
            /\ md_result' = [md_result EXCEPT ![t] = "none"]
    /\ UNCHANGED notMD
    /\ UNCHANGED md_registered

(* if (hasCircularDependency(getName())) ... else return success *)
MDCheck(t) ==
    /\ md_pc[t] = "check"
    /\ IF MDHasCircularDependencyImpl(md_dependencies, md_arg[t].module, {})
       THEN /\ md_pc' = [md_pc EXCEPT ![t] = "clear"]
            /\ UNCHANGED md_result
       ELSE /\ md_pc' = [md_pc EXCEPT ![t] = "idle"]
            /\ md_result' = [md_result EXCEPT ![t] = "Success"]
    /\ UNCHANGED notMD
    /\ UNCHANGED <<md_registered, md_dependencies, md_arg, md_calls>>

(* clearDependencies(getName()): dependencies_.erase(module); return       *)
(* CIRCULAR_DEPENDENCY                                                     *)
MDClear(t) ==
    /\ md_pc[t] = "clear"
    /\ md_dependencies' = [md_dependencies EXCEPT ![md_arg[t].module] = <<>>]
    /\ md_pc' = [md_pc EXCEPT ![t] = "idle"]
    /\ md_result' = [md_result EXCEPT ![t] = "CIRCULAR_DEPENDENCY"]
    /\ UNCHANGED notMD
    /\ UNCHANGED <<md_registered, md_arg, md_calls>>

MDNext ==
    \/ \E t \in MDThreads, module \in MDNames, dependency \in MDNames :
          MDAddDependency(t, module, dependency)
    \/ \E t \in MDThreads : MDCheck(t)
    \/ \E t \in MDThreads : MDClear(t)

(***************************************************************************)
(* UdpService (src/src/network/tcp_session.cpp:482-758).  Datagrams are    *)
(* handled by io_service_.poll() and the sweep runs right after it, both   *)
(* in updateNetworkTasks on the service worker: handleDatagram and         *)
(* cleanupInactiveSessions are whole steps.  sessions_ maps an id to a     *)
(* session, endpoint_to_session_ an (address, port) to an id.              *)
(***************************************************************************)
UDEndpoints ==
    {[address |-> "10.0.0.1", port |-> 5000],
     [address |-> "10.0.0.1", port |-> 5001],
     [address |-> "10.0.0.2", port |-> 5000]}

UDSessionIds == 1..UDMaxDatagrams

(* no session id: the endpoint is not in endpoint_to_session_ *)
UDNoSession == 0

UDInit ==
    /\ ud_sessions = {}
    /\ ud_endpoint_to_session = [ep \in UDEndpoints |-> UDNoSession]
    /\ ud_next_session_id = 1
    /\ ud_idle = {}
    /\ ud_datagrams = 0
    /\ ud_last = [endpoint |-> CHOOSE ep \in UDEndpoints : TRUE,
                  id |-> UDNoSession]
    /\ ud_on_created = [id \in UDSessionIds |-> 0]
    /\ ud_on_closed = [id \in UDSessionIds |-> 0]

(* A lookup that never finds the endpoint. *)
UDFindNone(map, sessions, endpoint) == UDNoSession

(* endpoint_to_session_.find(endpoint_id), then getSession(it->second):    *)
(* the id of the session of this endpoint, if the map has it and the       *)
(* session table has that id                                               *)
UDFind(map, sessions, endpoint) ==
    IF map[endpoint] # UDNoSession /\ \E s \in sessions : s.id = map[endpoint]
    THEN map[endpoint]
    ELSE UDNoSession

(* handleReceive -> handleDatagram(endpoint_id): getOrCreateSession (reuse *)
(* the endpoint's session, or generateSessionId, addSession, map the       *)
(* endpoint, notify), then session->updateLastActivity()                   *)
UDHandleDatagram(endpoint) ==
    /\ ud_datagrams < UDMaxDatagrams
    /\ ud_datagrams' = ud_datagrams + 1
    /\ LET found == UDFind(ud_endpoint_to_session, ud_sessions, endpoint)
           id == IF found # UDNoSession THEN found ELSE ud_next_session_id
       IN /\ ud_last' = [endpoint |-> endpoint, id |-> id]
          /\ ud_idle' = ud_idle \ {id}
          /\ IF found # UDNoSession
             THEN UNCHANGED <<ud_sessions, ud_endpoint_to_session,
                              ud_next_session_id, ud_on_created>>
             ELSE /\ ud_next_session_id' = ud_next_session_id + 1
                  /\ ud_sessions' = ud_sessions \cup
                        {[id |-> id, endpoint |-> endpoint]}
                  /\ ud_endpoint_to_session' =
                        [ud_endpoint_to_session EXCEPT ![endpoint] = id]
                  /\ ud_on_created' = [ud_on_created EXCEPT ![id] = @ + 2]
    /\ UNCHANGED notUD
    /\ UNCHANGED ud_on_closed

(* time passes without a datagram from the session's endpoint: its idle    *)
(* time now exceeds session_timeout_ms                                     *)
UDIdleTimeout(id) ==
    /\ \E s \in ud_sessions : s.id = id
    /\ id \notin ud_idle
    /\ ud_idle' = ud_idle \cup {id}
    /\ UNCHANGED notUD
    /\ UNCHANGED <<ud_sessions, ud_endpoint_to_session, ud_next_session_id,
                   ud_datagrams, ud_last, ud_on_created, ud_on_closed>>

(* cleanupInactiveSessions, when five seconds have passed since the last   *)
(* sweep: every session with idle time > session_timeout_ms is erased from *)
(* the endpoint map and onSessionClosed is called for it; then             *)
(* removeSession erases each from the table and calls onSessionClosed      *)
UDCleanupInactiveSessions ==
    /\ ud_idle # {}
    /\ ud_endpoint_to_session' =
          [ep \in UDEndpoints |->
              IF \E s \in ud_sessions : s.id \in ud_idle /\ s.endpoint = ep
              THEN UDNoSession
              ELSE ud_endpoint_to_session[ep]]
    /\ ud_sessions' = {s \in ud_sessions : s.id \notin ud_idle}
    /\ ud_on_closed' = [id \in UDSessionIds |->
                           IF id \in ud_idle THEN ud_on_closed[id] + 2
                           ELSE ud_on_closed[id]]
    /\ ud_idle' = {}
    /\ UNCHANGED notUD
    /\ UNCHANGED <<ud_next_session_id, ud_datagrams, ud_last, ud_on_created>>

UDNext ==
    \/ \E endpoint \in UDEndpoints : UDHandleDatagram(endpoint)
    \/ \E id \in UDSessionIds : UDIdleTimeout(id)
    \/ UDCleanupInactiveSessions

(***************************************************************************)
(* The message counters of a TcpService (src/unnamed/part_002:286-325) and *)
(* the calls that reach them from one connected TcpSession.  A read        *)
(* completion with a whole message calls handleReceivedMessageById         *)
(* (tcp_session.cpp:295, 354).  handleSentMessageById has no caller:       *)
(* handleWrite (362-384) pops the written frame and starts the next write. *)
(***************************************************************************)
TCInit ==
    /\ tc_state = "CONNECTED"
    /\ tc_in = 0
    /\ tc_client_sent = 0
    /\ tc_total_messages_received = 0
    /\ tc_total_messages_sent = 0
    /\ tc_on_message_received = 0
    /\ tc_write_queue = <<>>
    /\ tc_writes_completed = 0
    /\ tc_echoed = 0

(* the client writes one well-formed message to the connection *)
TCClientSend ==
    /\ tc_client_sent < TCMaxMessages
    /\ tc_client_sent' = tc_client_sent + 1
    /\ tc_in' = tc_in + 1
    /\ UNCHANGED notTC
    /\ UNCHANGED <<tc_state, tc_total_messages_received,
                   tc_total_messages_sent, tc_on_message_received,
                   tc_write_queue, tc_writes_completed, tc_echoed>>

(* TcpSession::send on a connected session: the frame is pushed on the     *)
(* write queue (and written when it is at the front)                       *)
TCSend(queue, n) ==
    IF tc_state = "CONNECTED" THEN Append(queue, n) ELSE queue

(* NetService::handleReceivedMessage: total_messages_received_++ *)
TCReceivedCounted(count) == count + 1

(* handleReadHeader / handleReadBody with a whole message: the service's   *)
(* handleReceivedMessage counts it and calls on_message_received, which    *)
(* echoes the message with session.send or does not; then the next read    *)
TCHandleReadBody(echo) ==
    /\ tc_state = "CONNECTED"
    /\ tc_in > 0
    /\ tc_in' = tc_in - 1
    /\ tc_total_messages_received' =
          TCReceivedCounted(tc_total_messages_received)
    /\ tc_on_message_received' = tc_on_message_received + 1
    /\ IF echo
       THEN /\ tc_write_queue' = TCSend(tc_write_queue,
                                        tc_on_message_received + 1)
            /\ tc_echoed' = tc_echoed + 1
       ELSE UNCHANGED <<tc_write_queue, tc_echoed>>
    /\ UNCHANGED notTC
    /\ UNCHANGED <<tc_state, tc_client_sent, tc_total_messages_sent,
                   tc_writes_completed>>

(* handleWrite(no error): the frame at the front has been written; pop it  *)
(* and write the next one.  No counter is touched.                         *)
TCHandleWrite ==
    /\ tc_state = "CONNECTED"
    /\ tc_write_queue # <<>>
    /\ tc_write_queue' = Tail(tc_write_queue)
    /\ tc_writes_completed' = tc_writes_completed + 1
    /\ UNCHANGED notTC
    /\ UNCHANGED <<tc_state, tc_in, tc_client_sent,
                   tc_total_messages_received, tc_total_messages_sent,
                   tc_on_message_received, tc_echoed>>

(* handleWrite(error): the error is reported and the session closed *)
TCHandleWriteError ==
    /\ tc_state = "CONNECTED"
    /\ tc_write_queue # <<>>
    /\ tc_state' = "DISCONNECTED"
    /\ UNCHANGED notTC
    /\ UNCHANGED <<tc_in, tc_client_sent, tc_total_messages_received,
                   tc_total_messages_sent, tc_on_message_received,
                   tc_write_queue, tc_writes_completed, tc_echoed>>

TCNext ==
    \/ TCClientSend
    \/ \E echo \in BOOLEAN : TCHandleReadBody(echo)
    \/ TCHandleWrite
    \/ TCHandleWriteError

(***************************************************************************)
(* The LockFreeMessageQueue of src/unnamed/part_004, one producer and one  *)
(* consumer, each operation a whole step.  sq_queue is the content of the  *)
(* ring from head_ to tail_; the ring has capacity_ + 1 slots and holds up *)
(* to capacity_ messages.  sq_last is the last pop operation: which one,   *)
(* what it returned, and shutdown_ and the queue length as it returned.    *)
(***************************************************************************)
SQMsgs == 1..SQMaxMsgs

SQPopOps == {"pop", "tryPop", "waitAndPop"}

SQInit ==
    /\ sq_queue = <<>>
    /\ sq_shutdown = FALSE
    /\ sq_nextMsg = 1
    /\ sq_pops = 0
    /\ sq_last = [op |-> "none", msg |-> NoMsg, shutdown |-> FALSE, left |-> 0]

(* push(message): dropped if shutdown; spins while the ring is full (and   *)
(* drops the message if shutdown meanwhile); stores the message and tail_  *)
SQPush ==
    /\ sq_nextMsg <= SQMaxMsgs
    /\ sq_shutdown \/ Len(sq_queue) < SQCapacity
    /\ sq_nextMsg' = sq_nextMsg + 1
    /\ sq_queue' = IF sq_shutdown THEN sq_queue
                   ELSE Append(sq_queue, sq_nextMsg)
    /\ UNCHANGED notSQ
    /\ UNCHANGED <<sq_shutdown, sq_pops, sq_last>>

(* the pop operation op returns msg (NoMsg for nullptr) *)
SQReturn(op, msg) ==
    /\ sq_pops' = sq_pops + 1
    /\ sq_queue' = IF msg = NoMsg THEN sq_queue ELSE Tail(sq_queue)
    /\ sq_last' = [op |-> op, msg |-> msg, shutdown |-> sq_shutdown,
                   left |-> Len(sq_queue')]

(* tryPop(): nullptr if head_ = tail_, else the message at head_ *)
SQTryPopResult == IF sq_queue = <<>> THEN NoMsg ELSE Head(sq_queue)

SQTryPop ==
    /\ sq_pops < SQMaxPops
    /\ SQReturn("tryPop", SQTryPopResult)
    /\ UNCHANGED notSQ
    /\ UNCHANGED <<sq_shutdown, sq_nextMsg>>

(* while (!isShutdown()) *)
SQLoop == ~sq_shutdown

(* pop(): while (!isShutdown()) { tryPop; return it if it got a message;   *)
(* yield }; return nullptr                                                 *)
SQPop ==
    /\ sq_pops < SQMaxPops
    /\ ~SQLoop \/ sq_queue # <<>>
    /\ SQReturn("pop", IF SQLoop THEN SQTryPopResult ELSE NoMsg)
    /\ UNCHANGED notSQ
    /\ UNCHANGED <<sq_shutdown, sq_nextMsg>>

(* waitAndPop(timeout): the same loop, which also ends when the timeout    *)
(* has passed (at once, for a zero timeout)                                *)
SQWaitAndPop(timedOut) ==
    /\ sq_pops < SQMaxPops
    /\ timedOut \/ ~SQLoop \/ sq_queue # <<>>
    /\ SQReturn("waitAndPop",
                IF ~timedOut /\ SQLoop THEN SQTryPopResult ELSE NoMsg)
    /\ UNCHANGED notSQ
    /\ UNCHANGED <<sq_shutdown, sq_nextMsg>>

(* shutdown(): shutdown_.store(true) *)
SQShutdown ==
    /\ ~sq_shutdown
    /\ sq_shutdown' = TRUE
    /\ UNCHANGED notSQ
    /\ UNCHANGED <<sq_queue, sq_nextMsg, sq_pops, sq_last>>

SQNext ==
    \/ SQPush
    \/ SQTryPop
    \/ SQPop
    \/ \E timedOut \in BOOLEAN : SQWaitAndPop(timedOut)
    \/ SQShutdown

(***************************************************************************)
(* NetService and its SessionHandler on one thread (src/unnamed/part_002). *)
(* cb_stack is the thread's call stack: the NetService function that holds *)
(* or held the table and the callback it is calling, innermost last.       *)
(* cb_mutex is sessions_mutex_, a std::mutex: locking it again on the      *)
(* thread that owns it is undefined; the thread blocks for ever or, where  *)
(* the library detects it, lock() throws std::system_error.  A callback    *)
(* returns, calls close() on a session, or calls getSession().             *)
(***************************************************************************)
CBSessionIds == 1..CBMaxSessions

CBCallbacks == {"on_created", "on_closed", "on_idle"}

CBRelockOutcomes == {"deadlock", "system_error"}

CBInit ==
    /\ cb_state = [id \in CBSessionIds |-> "NEW"]
    /\ cb_sessions = {}
    /\ cb_mutex = FALSE
    /\ cb_stack = <<>>
    /\ cb_fault = "none"

CBFrame(fn, id) == [fn |-> fn, id |-> id]

CBTop == cb_stack[Len(cb_stack)]

CBInCallback == cb_stack # <<>> /\ CBTop.fn \in CBCallbacks

CBPop(stack, n) == SubSeq(stack, 1, Len(stack) - n)

(* TcpService::handleAccept: session->start(), then addSession: lock,      *)
(* insert, onSessionCreated with the lock_guard still in scope             *)
CBHandleAccept(id) ==
    /\ cb_fault = "none"
    /\ cb_stack = <<>>
    /\ cb_state[id] = "NEW"
    /\ cb_state' = [cb_state EXCEPT ![id] = "CONNECTED"]
    /\ cb_sessions' = cb_sessions \cup {id}
    /\ cb_mutex' = TRUE
    /\ cb_stack' = <<CBFrame("addSession", id), CBFrame("on_created", id)>>
    /\ UNCHANGED notCB
    /\ UNCHANGED cb_fault

(* checkIdleSessions: the idle sessions are collected under the lock, the  *)
(* lock is released, then onSessionIdle is called for an idle session      *)
CBCheckIdleSessions(id) ==
    /\ cb_fault = "none"
    /\ cb_stack = <<>>
    /\ id \in cb_sessions
    /\ cb_state[id] = "CONNECTED"
    /\ cb_stack' = <<CBFrame("checkIdleSessions", id), CBFrame("on_idle", id)>>
    /\ UNCHANGED notCB
    /\ UNCHANGED <<cb_state, cb_sessions, cb_mutex, cb_fault>>

(* removeSession(id), called with the call stack `stack`: lock (undefined  *)
(* if this thread holds the mutex), erase, onSessionClosed with the        *)
(* lock_guard still in scope                                               *)
CBRemoveSession(id, stack, outcome) ==
    IF cb_mutex
    THEN /\ cb_fault' = outcome
         /\ cb_stack' = Append(stack, CBFrame("removeSession", id))
         /\ UNCHANGED <<cb_sessions, cb_mutex>>
    ELSE /\ cb_sessions' = cb_sessions \ {id}
         /\ cb_mutex' = TRUE
         /\ cb_stack' = stack \o <<CBFrame("removeSession", id),
                                   CBFrame("on_closed", id)>>
         /\ UNCHANGED cb_fault

(* session.close() on a connected session, from the application or from a  *)
(* callback: state_ = DISCONNECTED, then service_->removeSessionById(id_)  *)
CBClose(id, outcome) ==
    /\ cb_fault = "none"
    /\ cb_stack = <<>> \/ CBInCallback
    /\ cb_state[id] = "CONNECTED"
    /\ cb_state' = [cb_state EXCEPT ![id] = "DISCONNECTED"]
    /\ CBRemoveSession(id, cb_stack, outcome)
    /\ UNCHANGED notCB

(* a callback calls getSession(id) while the thread holds the mutex *)
CBGetSession(id, outcome) ==
    /\ cb_fault = "none"
    /\ CBInCallback
    /\ cb_mutex
    /\ cb_fault' = outcome
    /\ cb_stack' = Append(cb_stack, CBFrame("getSession", id))
    /\ UNCHANGED notCB
    /\ UNCHANGED <<cb_state, cb_sessions, cb_mutex>>

(* the callback returns.  Into addSession or removeSession: the lock_guard *)
(* is destroyed and the function returns (and with it the close() that     *)
(* called removeSession, and checkIdleSessions if that called close()).    *)
(* Into checkIdleSessions: session->close() is called next.                *)
CBReturn ==
    /\ cb_fault = "none"
    /\ CBInCallback
    /\ LET rest == CBPop(cb_stack, 1)
           caller == rest[Len(rest)]
           outer == CBPop(cb_stack, 2)
       IN IF caller.fn = "checkIdleSessions"
          THEN IF cb_state[caller.id] = "CONNECTED"
               THEN /\ cb_state' = [cb_state EXCEPT ![caller.id] = "DISCONNECTED"]
                    /\ CBRemoveSession(caller.id, rest, "deadlock")
               ELSE /\ cb_stack' = <<>>
                    /\ UNCHANGED <<cb_state, cb_sessions, cb_mutex, cb_fault>>
          ELSE /\ cb_mutex' = FALSE
               /\ cb_stack' =
                     IF outer # <<>> /\ outer[Len(outer)].fn = "checkIdleSessions"
                     THEN <<>>
                     ELSE outer
               /\ UNCHANGED <<cb_state, cb_sessions, cb_fault>>
    /\ UNCHANGED notCB

CBNext ==
    \/ \E id \in CBSessionIds : CBHandleAccept(id)
    \/ \E id \in CBSessionIds : CBCheckIdleSessions(id)
    \/ \E id \in CBSessionIds, outcome \in CBRelockOutcomes : CBClose(id, outcome)
    \/ \E id \in CBSessionIds, outcome \in CBRelockOutcomes :
          CBGetSession(id, outcome)
    \/ CBReturn

(***************************************************************************)
(* TcpService accepting connections (src/unnamed/part_002:344-548).        *)
(* io_thread_count threads run io_context_->run(), so with one thread a    *)
(* completion handler runs to its end before the next one starts, and with *)
(* more a read completion of a session can run while handleAccept is still *)
(* between session->start() and addSession(session).  acceptConnection()   *)
(* is called again at the end of handleAccept, so accepts do not overlap.  *)
(* ac_events is what the SessionHandler is told about each session.        *)
(***************************************************************************)
ACSessionIds == 1..ACMaxSessions

ACNoSession == 0

ACInit ==
    /\ ac_io_thread_count \in 1..ACMaxIoThreads
    /\ ac_accepting = ACNoSession
    /\ ac_state = [id \in ACSessionIds |-> "NEW"]
    /\ ac_reading = [id \in ACSessionIds |-> FALSE]
    /\ ac_sessions = {}
    /\ ac_in = [id \in ACSessionIds |-> 0]
    /\ ac_eof = [id \in ACSessionIds |-> FALSE]
    /\ ac_sent = [id \in ACSessionIds |-> 0]
    /\ ac_events = [id \in ACSessionIds |-> <<>>]

(* the client of session id sends a message right after connecting *)
ACPeerSend(id) ==
    /\ ac_sent[id] < ACMaxMessages
    /\ ~ac_eof[id]
    /\ ac_sent' = [ac_sent EXCEPT ![id] = @ + 1]
    /\ ac_in' = [ac_in EXCEPT ![id] = @ + 1]
    /\ UNCHANGED notAC
    /\ UNCHANGED <<ac_io_thread_count, ac_accepting, ac_state, ac_reading,
                   ac_sessions, ac_eof, ac_events>>

(* the client of session id closes the connection *)
ACPeerClose(id) ==
    /\ ~ac_eof[id]
    /\ ac_eof' = [ac_eof EXCEPT ![id] = TRUE]
    /\ UNCHANGED notAC
    /\ UNCHANGED <<ac_io_thread_count, ac_accepting, ac_state, ac_reading,
                   ac_sessions, ac_in, ac_sent, ac_events>>

(* a completion handler of session id may start: any time with several     *)
(* reactor threads, and only between handlers with one                     *)
ACMayRun(id) == ac_io_thread_count > 1 \/ ac_accepting = ACNoSession

(* handleAccept, first part: session->start() sets CONNECTED and calls     *)
(* readHeader(), which starts the async_read                               *)
ACHandleAcceptStart(id) ==
    /\ ac_accepting = ACNoSession
    /\ ac_state[id] = "NEW"
    /\ \A other \in ACSessionIds : other < id => ac_state[other] # "NEW"
    /\ ac_accepting' = id
    /\ ac_state' = [ac_state EXCEPT ![id] = "CONNECTED"]
    /\ ac_reading' = [ac_reading EXCEPT ![id] = TRUE]
    /\ UNCHANGED notAC
    /\ UNCHANGED <<ac_io_thread_count, ac_sessions, ac_in, ac_eof, ac_sent,
                   ac_events>>

(* handleAccept, second part: addSession(session) inserts the session and  *)
(* calls onSessionCreated; then acceptConnection()                         *)
ACHandleAcceptAdd ==
    /\ ac_accepting # ACNoSession
    /\ ac_sessions' = ac_sessions \cup {ac_accepting}
    /\ ac_events' = [ac_events EXCEPT ![ac_accepting] = Append(@, "on_created")]
    /\ ac_accepting' = ACNoSession
    /\ UNCHANGED notAC
    /\ UNCHANGED <<ac_io_thread_count, ac_state, ac_reading, ac_in, ac_eof,
                   ac_sent>>

(* handleReadHeader / handleReadBody without error: the message goes to    *)
(* handleReceivedMessageById, then readHeader() again                      *)
ACHandleRead(id) ==
    /\ ACMayRun(id)
    /\ ac_reading[id]
    /\ ac_in[id] > 0
    /\ ac_in' = [ac_in EXCEPT ![id] = @ - 1]
    /\ ac_events' = [ac_events EXCEPT ![id] = Append(@, "on_message_received")]
    /\ UNCHANGED notAC
    /\ UNCHANGED <<ac_io_thread_count, ac_accepting, ac_state, ac_reading,
                   ac_sessions, ac_eof, ac_sent>>

(* handleReadHeader with an error (end of file): handleSessionErrorById,   *)
(* then close(): DISCONNECTED and removeSessionById, which calls           *)
(* onSessionClosed only if the table has the session                       *)
ACHandleReadError(id) ==
    /\ ACMayRun(id)
    /\ ac_reading[id]
    /\ ac_in[id] = 0
    /\ ac_eof[id]
    /\ ac_reading' = [ac_reading EXCEPT ![id] = FALSE]
    /\ ac_state' = [ac_state EXCEPT ![id] = "DISCONNECTED"]
    /\ ac_sessions' = ac_sessions \ {id}
    /\ ac_events' = [ac_events EXCEPT
          ![id] = IF id \in ac_sessions
                  THEN @ \o <<"on_error", "on_closed">>
                  ELSE Append(@, "on_error")]
    /\ UNCHANGED notAC
    /\ UNCHANGED <<ac_io_thread_count, ac_accepting, ac_in, ac_eof, ac_sent>>

ACNext ==
    \/ \E id \in ACSessionIds : ACPeerSend(id)
    \/ \E id \in ACSessionIds : ACPeerClose(id)
    \/ \E id \in ACSessionIds : ACHandleAcceptStart(id)
    \/ ACHandleAcceptAdd
    \/ \E id \in ACSessionIds : ACHandleRead(id)
    \/ \E id \in ACSessionIds : ACHandleReadError(id)

(***************************************************************************)
(* Specifications.  Each one runs one subsystem; the others stay as        *)
(* constructed, the queues they do not exercise with one fixed capacity.   *)
(***************************************************************************)
(* The subsystems a specification does not exercise, as constructed. *)
ACParked == ACInit /\ ac_io_thread_count = 1
MPParked == MPInit /\ mp_capacity = MaxCapacity
DQParked == DQInit /\ dq_max_size = 0
LFParked == LFInit /\ lf_capacity = LFMaxCapacity
PQParked == PQInit /\ pq_max_size = 0
TSParked == TSInit /\ ts_read_buffer_size = TSMaxReadBuffer
NSParked == NSInit /\ ns_idle_timeout_ms = NSIdleTimeoutMs
MDParked == MDInit /\ md_registered = MDNames

(* every MPMC capacity, the other subsystems as constructed by default *)
InitMPMC == MPInit /\ DQParked /\ SVInit /\ TMInit /\ LFParked /\ PQParked /\ TSParked /\ NSParked /\ SXInit /\ MDParked /\ UDInit /\ TCInit /\ SQInit /\ CBInit /\ ACParked

(* every max_size, bounded or not *)
InitDQ == MPParked /\ DQInit /\ SVInit /\ TMInit /\ LFParked /\ PQParked /\ TSParked /\ NSParked /\ SXInit /\ MDParked /\ UDInit /\ TCInit /\ SQInit /\ CBInit /\ ACParked

InitOther == MPParked /\ DQParked /\ SVInit /\ TMInit /\ LFParked /\ PQParked /\ TSParked /\ NSParked /\ SXInit /\ MDParked /\ UDInit /\ TCInit /\ SQInit /\ CBInit /\ ACParked

(* every LockFreeMessageQueue capacity *)
InitLF == MPParked /\ DQParked /\ SVInit /\ TMInit /\ LFInit /\ PQParked /\ TSParked /\ NSParked /\ SXInit /\ MDParked /\ UDInit /\ TCInit /\ SQInit /\ CBInit /\ ACParked

SpecMPMC == InitMPMC /\ [][MPNext]_vars

(* MPMCMessageQueue with a ring of MaxCapacity cells, whose consumers keep  *)
(* calling tryPop and keep running (a compare_exchange_weak does not fail  *)
(* for ever when it could succeed), while a producer may stop taking steps *)
(* at any point: no step of a producer is forced.                          *)
InitMPMCStall == InitMPMC /\ mp_capacity = MaxCapacity

MPConsumerStep(c) ==
    \/ MPTryPopCall(c)
    \/ MPPopLoadPos(c)
    \/ MPPopLoadSeq(c)
    \/ MPPopCas(c)
    \/ MPPopLoadData(c)
    \/ MPPopStoreSeq(c)

MPConsumersRun ==
    \A c \in Consumers :
        /\ WF_mpVars(MPConsumerStep(c))
        /\ SF_mpVars(MPPopCas(c) /\ mp_dequeue_pos' # mp_dequeue_pos)

SpecMPMCStall == InitMPMCStall /\ [][MPNext]_vars /\ MPConsumersRun

SpecDQ == InitDQ /\ [][DQNext]_vars

(* Fair scheduling of DefaultMessageQueue threads: a thread that is inside *)
(* push or a pop operation and is runnable (going for the mutex, woken     *)
(* from a condition variable, about to notify, or in a wait_for whose      *)
(* timeout expires) eventually takes its step.  Calls of the operations,   *)
(* clear(), shutdown() and spurious wake-ups are not forced.               *)
(* The steps of a producer and of a consumer that is inside an operation. *)
DQProducerStep(p) == DQPushLocked(p) \/ DQPushWake(p) \/ DQPushNotify(p)

DQConsumerStep(c) ==
    DQPopWake(c) \/ DQWaitPopWake(c) \/ DQWaitPopTimeout(c) \/ DQPopNotify(c)

DQFairness ==
    /\ \A p \in DQProd : WF_dqVars(DQProducerStep(p))
    /\ \A c \in DQCons : WF_dqVars(DQConsumerStep(c))

(* The liveness claims are about the bounded queue, where both condition  *)
(* variables are in use.                                                   *)
InitDQFair == InitDQ /\ dq_max_size > 0

SpecDQFair == InitDQFair /\ [][DQNext]_vars /\ DQFairness

(* every PriorityMessageQueue max_size, bounded or not *)
InitPQ == MPParked /\ DQParked /\ SVInit /\ TMInit /\ LFParked /\ PQInit /\ TSParked /\ NSParked /\ SXInit /\ MDParked /\ UDInit /\ TCInit /\ SQInit /\ CBInit /\ ACParked

SpecPQ == InitPQ /\ [][PQNext]_vars

(* a TcpSession of a service with every read_buffer_size *)
InitTS ==
    MPParked /\ DQParked /\ SVInit /\ TMInit /\ LFParked /\ PQParked /\ TSInit /\ NSParked /\ SXInit /\ MDParked /\ UDInit /\ TCInit /\ SQInit /\ CBInit /\ ACParked

SpecTSWrite == InitTS /\ [][TSWriteNext]_vars

SpecTSRead == InitTS /\ [][TSReadNext]_vars

(* a NetService with the idle sweep disabled or enabled *)
InitNS ==
    MPParked /\ DQParked /\ SVInit /\ TMInit /\ LFParked /\ PQParked /\ TSParked /\ NSInit /\ SXInit /\ MDParked /\ UDInit /\ TCInit /\ SQInit /\ CBInit /\ ACParked

SpecNS == InitNS /\ [][NSNext]_vars

(* The service keeps running its worker loop, and a thread that is inside *)
(* close() or the idle sweep finishes it; nothing forces a close() call,  *)
(* session activity or the length of a loop iteration.                    *)
NSWorkerStep ==
    \/ \E elapsed \in NSElapsed : NSWorkerLoop(elapsed)
    \/ NSIdleHandle

NSCloseStep(t) == NSCloseSetClosing(t) \/ NSCloseSocket(t) \/ NSCloseRemove(t)

NSFairness ==
    /\ WF_nsVars(NSWorkerStep)
    /\ \A t \in NSThreads : WF_nsVars(NSCloseStep(t))

InitNSIdle == InitNS /\ ns_idle_timeout_ms > 0

SpecNSIdle == InitNSIdle /\ [][NSNext]_vars /\ NSFairness

SpecLF == InitLF /\ [][LFNext]_vars

SpecService == InitOther /\ [][SVNext]_vars

(* modules of which all or all but one are registered with the service *)
InitMD ==
    MPParked /\ DQParked /\ SVInit /\ TMInit /\ LFParked /\ PQParked /\ TSParked /\ NSParked /\ SXInit /\ MDInit /\ UDInit /\ TCInit /\ SQInit /\ CBInit /\ ACParked

SpecMD == InitMD /\ [][MDNext]_vars

SpecUdp == InitOther /\ [][UDNext]_vars

SpecTcpStats == InitOther /\ [][TCNext]_vars

SpecStandaloneLF == InitOther /\ [][SQNext]_vars

SpecCallbacks == InitOther /\ [][CBNext]_vars

InitAccept ==
    /\ MPParked /\ DQParked /\ SVInit /\ TMInit /\ LFParked /\ PQParked
    /\ TSParked /\ NSParked /\ SXInit /\ MDParked /\ UDInit /\ TCInit
    /\ SQInit /\ CBInit /\ ACInit

SpecAccept == InitAccept /\ [][ACNext]_vars

(* the registries of a service that is started and stopped *)
SpecRegistry == InitOther /\ [][SXNext]_vars

SpecTimer == InitOther /\ [][TMNext]_vars

(***************************************************************************)
(* C1.  MPMCMessageQueue, N producers and M consumers, no shutdown and no  *)
(* clear: every pushed message is returned by exactly one pop operation.   *)
(* As a state predicate: no message is returned twice, nothing is returned *)
(* that was not pushed (no nullptr out of a reserved cell, no message      *)
(* whose push has not begun), and a message whose push has returned is     *)
(* either already returned, or in the hands of a consumer, or still in a   *)
(* cell of the ring.                                                       *)
(***************************************************************************)
MPPushBegun == {MPMessageOf(p, k) : p \in Producers, k \in 1..PushesPerProducer}
                  \ {m \in MPMsgs : \E p \in Producers :
                        \E k \in (mp_pushed[p] + 1)..PushesPerProducer :
                            m = MPMessageOf(p, k)}

MPInRing(m) == \E i \in DOMAIN mp_data : mp_data[i] = m

MPHeld(m) == \E c \in Consumers : mp_pc[c] = "pop_store_seq" /\ mp_msg[c] = m

C1_ExactlyOnce ==
    /\ \A m \in MPMsgs : mp_retCount[m] <= 1
    /\ mp_retCount[NoMsg] = 0
    /\ \A m \in MPMsgs : mp_retCount[m] > 0 => m \in MPPushBegun
    /\ \A m \in mp_pushDone : mp_retCount[m] = 1 \/ MPHeld(m) \/ MPInRing(m)

(***************************************************************************)
(* C2.  DefaultMessageQueue without clear(): the messages returned by the  *)
(* pop operations together with the messages still queued are the         *)
(* messages whose push began before shutdown(): nothing lost, duplicated   *)
(* or invented.  Stated over the pushes that have returned.                *)
(***************************************************************************)
DQQueued == {dq_queue[i] : i \in 1..Len(dq_queue)}

DQReturned == {dq_returned[i] : i \in 1..Len(dq_returned)}

DQDelivered == dq_returned \o dq_queue

DQNoDuplicates ==
    \A i, j \in 1..Len(DQDelivered) : DQDelivered[i] = DQDelivered[j] => i = j

C2_BegunBeforeShutdownDelivered ==
    dq_cleared = {} =>
        /\ DQNoDuplicates
        /\ DQReturned \cup DQQueued \subseteq dq_begunBefore
        /\ \A m \in dq_begunBefore \cap dq_pushDone : m \in DQReturned \cup DQQueued

(* C2 as amended: the messages returned or still queued are the messages   *)
(* whose push began before shutdown() except those whose push was still    *)
(* waiting (for the mutex, or for room in a full bounded queue) when       *)
(* shutdown() ran; such a push returns without enqueueing.                 *)
C2_Conservation ==
    dq_cleared = {} =>
        /\ DQNoDuplicates
        /\ DQReturned \cup DQQueued \subseteq dq_begunBefore
        /\ \A m \in dq_pushDone : m \in DQReturned \cup DQQueued <=> m \notin dq_dropped
        /\ dq_dropped # {} => dq_shutdown

C2_Witness ==
    /\ dq_cleared = {}
    /\ dq_returned # <<>>
    /\ dq_dropped \cap dq_begunBefore # {}
    /\ \A t \in DQThreads : dq_pc[t] = "idle"

(***************************************************************************)
(* C3.  DefaultMessageQueue is FIFO: if push(a) returned before push(b)    *)
(* was called, a is taken by a pop operation before b is.  dq_returned is  *)
(* the order in which the pop operations took the messages under the       *)
(* mutex.  A message                                                       *)
(* discarded by clear() is not delivered at all.                           *)
(***************************************************************************)
DQIndex(m) == CHOOSE i \in 1..Len(dq_returned) : dq_returned[i] = m

C3_FIFO ==
    \A b \in DQReturned : \A a \in dq_before[b] :
        \/ a \in DQReturned /\ DQIndex(a) < DQIndex(b)
        \/ a \in dq_cleared

C3_Witness ==
    \E b \in DQReturned : \E a \in dq_before[b] :
        a \in DQReturned /\ DQIndex(a) < DQIndex(b)

(***************************************************************************)
(* C4.  After stop() has returned, every postMessage(m) returns            *)
(* ServiceNotStarted and m is never passed to a handler.                   *)
(***************************************************************************)
C4_PostAfterStopRefused ==
    \A m \in sv_afterStop :
        /\ sv_result[m] \in {"none", "SERVICE_NOT_STARTED"}
        /\ m \notin sv_handled

(***************************************************************************)
(* C5.  A timer whose repeat flag was never true (created by createOnce    *)
(* and never modified to repeat) has its callback invoked at most once,    *)
(* whatever createTimer, modify, cancel, clear and the group operations    *)
(* do while the worker runs.                                               *)
(***************************************************************************)
C5_OneShotAtMostOnce ==
    \A id \in TimerIds : id \notin tm_everRepeat => tm_fireCount[id] <= 1

(* The only timer was created by createOnce, modified (still not           *)
(* repeating) and has fired once; the worker is back at the top of its     *)
(* loop.                                                                   *)
C5_Witness ==
    /\ tm_next_id = 2
    /\ tm_modifies = 1
    /\ 1 \notin tm_everRepeat
    /\ tm_fireCount[1] = 1
    /\ tm_pc = "loop"

(***************************************************************************)
(* C6.  As claimed: once cancel(id) has returned true, no callback of      *)
(* timer id is started.                                                    *)
(***************************************************************************)
C6_NeverStartedAfterCancel ==
    \A id \in tm_cancelled : tm_lateStart[id] = 0

(***************************************************************************)
(* C6, amended.  Once cancel(id) has returned true the timer is gone from  *)
(* tasks_ and from the queue and the worker never again dequeues it for    *)
(* firing.  The only callback of id that can still start is the one of a   *)
(* repeating timer that the worker had dequeued, and released the lock     *)
(* for, before cancel ran: at most one.                                    *)
(***************************************************************************)
C6_NotDequeuedAfterCancel ==
    \A id \in tm_cancelled :
        /\ id \notin DOMAIN tm_tasks
        /\ \A t \in tm_queue : t.id # id
        /\ id \notin tm_lateDequeue
        /\ tm_lateStart[id] <= 1
        /\ tm_lateStart[id] = 1 => id \in tm_everRepeat

(* A callback of a cancelled timer has started after cancel returned true. *)
C6_Witness ==
    \E id \in tm_cancelled : tm_lateStart[id] = 1 /\ tm_pc = "loop"

(***************************************************************************)
(* C7.  As claimed: cancelGroup(g) cancels every member of g, none of      *)
(* their callbacks is started afterwards, and it cancels no timer that is  *)
(* not a member of g.                                                      *)
(***************************************************************************)
C7_GroupCancelStopsMembers ==
    /\ \A id \in tm_groupCancelled : tm_lateStart[id] = 0
    /\ tm_cgLost = {}

(***************************************************************************)
(* C7, amended.  cancelGroup(g) removes every member of g from tasks_ and  *)
(* from the queue, so the worker never again dequeues a member for firing, *)
(* and it removes no timer that is not a member of g.  The only callback   *)
(* of a member that can still start is the one of a repeating member that  *)
(* the worker had dequeued before cancelGroup ran: at most one per member. *)
(***************************************************************************)
C7_GroupCancelRemovesMembers ==
    /\ \A id \in tm_groupCancelled :
        /\ id \notin DOMAIN tm_tasks
        /\ \A t \in tm_queue : t.id # id
        /\ id \notin tm_lateDequeue
        /\ tm_lateStart[id] <= 1
        /\ tm_lateStart[id] = 1 => id \in tm_everRepeat
    /\ tm_cgLost = {}

(* Timer b was a member of a cancelled group and one callback of it has    *)
(* started since; timer a, created before b and not a member, is still     *)
(* there.                                                                  *)
C7_Witness ==
    \E a \in TimerIds, b \in TimerIds :
        /\ a < b
        /\ a \in DOMAIN tm_tasks
        /\ b \in tm_groupCancelled
        /\ tm_lateStart[b] = 1

(***************************************************************************)
(* C8.  When the worker fires a repeating task it re-inserts it with       *)
(* next_run = the clock at that firing + interval, so that the task is not *)
(* due again before interval has passed.                                   *)
(***************************************************************************)
C8_RescheduleFromFiring ==
    tm_resched # NoResched =>
        tm_resched.next_run = tm_resched.at + tm_resched.interval

(***************************************************************************)
(* C9.  Callbacks are invoked in non-decreasing order of the next_run each *)
(* task carried when it was dequeued: of two consecutive invocations the   *)
(* earlier carried a next_run less than or equal to the later one's.       *)
(***************************************************************************)
C9_NonDecreasingOrder ==
    tm_prevRun # NoTime => tm_prevRun <= tm_lastRun

(***************************************************************************)
(* C10.  A group whose last member has been removed (by cancel,            *)
(* removeFromGroup, a one-shot member firing or addToGroup moving the      *)
(* member away) no longer exists.                                          *)
(***************************************************************************)
C10_EmptiedGroupDeleted ==
    tm_emptied = {}

(***************************************************************************)
(* C11.  Once shutdown() has set shutdown_, no push adds a message to a    *)
(* DefaultMessageQueue: no step taken while shutdown_ is set appends to    *)
(* the queue (a step can only remove messages from its front or empty      *)
(* it), be it of a push called after shutdown() or of a producer that was  *)
(* blocked on a full queue; and a message whose push was called after      *)
(* shutdown() is never queued or returned, its push returning without      *)
(* enqueueing.                                                             *)
(***************************************************************************)
DQIsSuffix(s, t) ==
    /\ Len(s) <= Len(t)
    /\ \A i \in 1..Len(s) : s[i] = t[Len(t) - Len(s) + i]

C11_NoPushAfterShutdown ==
    /\ [][dq_shutdown => DQIsSuffix(dq_queue', dq_queue)]_vars
    /\ [](\A m \in DQMsgs :
            m < dq_nextMsg /\ m \notin dq_begunBefore =>
                /\ m \notin DQQueued \cup DQReturned
                /\ m \in dq_pushDone => m \in dq_dropped)

(* A bounded queue is shut down and still full, and a push that was called *)
(* before shutdown() has returned without enqueueing.                      *)
C11_Witness ==
    /\ dq_shutdown
    /\ dq_max_size > 0
    /\ Len(dq_queue) = dq_max_size
    /\ dq_dropped \cap dq_begunBefore # {}
    /\ \A t \in DQThreads : dq_pc[t] = "idle"

(***************************************************************************)
(* C12.  Messages enqueued before shutdown() stay retrievable.  shutdown() *)
(* leaves the queue contents as they are; once shutdown_ is set no thread  *)
(* is blocked on not_empty_, every message returned is the front of the    *)
(* queue (FIFO), and a pop() that was blocked returns empty only when the  *)
(* queue is empty.  (That a released consumer does return under fair       *)
(* scheduling is part of C14.)                                             *)
(***************************************************************************)
C12_RetrievableAfterShutdown ==
    /\ [][~dq_shutdown /\ dq_shutdown' => dq_queue' = dq_queue]_vars
    /\ [](dq_shutdown => dq_waitNotEmpty = {})
    /\ [][dq_shutdown /\ dq_returned' # dq_returned =>
             /\ dq_queue # <<>>
             /\ dq_returned' = Append(dq_returned, Head(dq_queue))
             /\ dq_queue' = Tail(dq_queue)]_vars
    /\ [][\A c \in DQCons :
             dq_shutdown /\ dq_pc[c] = "pop_wait" /\ dq_pc'[c] # "pop_wait" =>
                 IF dq_queue = <<>>
                 THEN dq_pc'[c] = "idle" /\ dq_returned' = dq_returned
                 ELSE dq_pc'[c] = "pop_notify" /\ dq_msg'[c] = Head(dq_queue)]_vars

(* The queue is shut down and drained, two messages have been returned,    *)
(* and a consumer that was blocked in pop() has been released (it is in no *)
(* wait set) and is about to return empty.                                 *)
C12_Witness ==
    /\ dq_shutdown
    /\ dq_queue = <<>>
    /\ Len(dq_returned) >= 2
    /\ dq_cleared = {}
    /\ \E c \in DQCons : dq_pc[c] = "pop_wait"

(***************************************************************************)
(* C13.  On a DefaultMessageQueue constructed with max_size > 0 the number *)
(* of queued messages never exceeds max_size, with several producers and   *)
(* consumers; hence a push on a full queue enqueues only after a pop or    *)
(* clear has made room.                                                    *)
(***************************************************************************)
C13_BoundRespected == dq_max_size > 0 => Len(dq_queue) <= dq_max_size

(* The bounded queue is full and two producers are blocked in push. *)
C13_Witness ==
    /\ dq_max_size > 0
    /\ Len(dq_queue) = dq_max_size
    /\ \A p \in DQProd : dq_pc[p] = "push_wait" /\ p \in dq_waitNotFull

C15_CompletedPushObtainable ==
    \A m \in MPMsgs : (m \in mp_pushDone) ~> (mp_retCount[m] > 0)

(***************************************************************************)
(* C16.  LockFreeMessageQueue with one producer thread and one consumer    *)
(* thread returns the messages in the order they were pushed, none lost or *)
(* duplicated, for every interleaving of the loads and stores of head_,    *)
(* tail_ and the slots and for every capacity: in every state the messages *)
(* returned, then the one tryPop holds after its CAS, then the slots from  *)
(* head_ to tail_ are exactly the messages whose push has stored tail_, in *)
(* push order (the producer pushes 1, 2, 3, ...).                          *)
(***************************************************************************)
RECURSIVE LFRingFrom(_)
LFRingFrom(i) ==
    IF i = lf_tail THEN <<>> ELSE <<lf_buffer[i]>> \o LFRingFrom(LFSucc(i))

LFHeld == IF lf_cpc = "pop_store_null" THEN <<lf_cmsg>> ELSE <<>>

C16_SPSCOrder ==
    lf_returned \o LFHeld \o LFRingFrom(lf_head) = [i \in 1..lf_stored |-> i]

(* Every message has been pushed and returned: more messages than the ring *)
(* has slots, so head_ and tail_ have wrapped around.                      *)
C16_Witness ==
    /\ Len(lf_returned) = LFMaxMsgs
    /\ LFMaxMsgs > lf_capacity + 1
    /\ ~lf_shutdown

(***************************************************************************)
(* C17.  PriorityMessageQueue: for two messages m1, m2 with m1 pushed      *)
(* before m2 and category(m1) < category(m2), m2 is delivered before m1.   *)
(* As stated, for every such pair: once m2 has been pushed, m1 is not      *)
(* among the returned messages unless m2 was returned earlier.             *)
(***************************************************************************)
PQIndex(m) == CHOOSE i \in 1..Len(pq_returned) : pq_returned[i] = m

PQReturned == {pq_returned[i] : i \in 1..Len(pq_returned)}

PQBefore(m2, m1) ==
    m2 \in PQReturned /\ (m1 \in PQReturned => PQIndex(m2) < PQIndex(m1))

C17_HigherCategoryFirst ==
    \A m1, m2 \in PQMsgs :
        (m1 < m2 /\ m2 < pq_nextMsg /\ m1 \in PQReturned
            /\ pq_priority[m2] > 0 /\ pq_priority[m1] < pq_priority[m2])
        => PQBefore(m2, m1)

(* C17 as it holds: if m1 was still in the queue when m2 was enqueued and  *)
(* category(m1) < category(m2), then m1 is not returned before m2.         *)
C17_HigherCategoryFirstIfQueued ==
    \A m2 \in PQMsgs : \A m1 \in pq_present[m2] :
        (m1 \in PQReturned /\ pq_priority[m1] < pq_priority[m2])
        => PQBefore(m2, m1)

(* m1 was queued when m2 of a higher category was enqueued, and both have  *)
(* been returned, m2 first.                                                *)
C17_Witness ==
    \E m2 \in PQMsgs : \E m1 \in pq_present[m2] :
        /\ pq_priority[m1] < pq_priority[m2]
        /\ m1 \in PQReturned
        /\ m2 \in PQReturned
        /\ PQIndex(m2) < PQIndex(m1)

(***************************************************************************)
(* C18.  Within one TcpSession the frames are handed to the socket in      *)
(* exactly the order send() enqueued them, and at most one asynchronous    *)
(* write is outstanding at any time, for every interleaving of concurrent  *)
(* send() calls with write completions.                                    *)
(***************************************************************************)
C18_OrderedSingleWrite ==
    /\ ts_writing <= 1
    /\ Len(ts_handed) <= Len(ts_enqueued)
    /\ ts_handed = SubSeq(ts_enqueued, 1, Len(ts_handed))

(* Three frames have been handed to the socket; the third was queued by a  *)
(* send() while a write was outstanding and is now being written.          *)
C18_Witness ==
    /\ Len(ts_handed) = 3
    /\ ts_writing = 1
    /\ ts_state = "CONNECTED"

(***************************************************************************)
(* C19.  TCP framing round-trips.  The bytes send() builds for (category,  *)
(* id, body) are a 7-byte header, category at offset 0, id at offset 1 and *)
(* body_size at offset 3, followed by the body; and the frames decoded by  *)
(* handleReadHeader / handleReadBody carry, in order, the category, id,    *)
(* body_size and body bytes of the frames the peer built.                  *)
(***************************************************************************)
C19_FramingRoundTrip ==
    /\ \A k \in 1..Len(ts_peerFrames) :
          LET f == ts_peerFrames[k]
              bytes == TSFrame(f.category, f.id, f.body)
          IN /\ Len(bytes) = 7 + Len(f.body)
             /\ bytes[1] = f.category
             /\ bytes[2] + 256 * bytes[3] = f.id
             /\ bytes[4] + 256 * bytes[5] + 65536 * bytes[6]
                    + 16777216 * bytes[7] = Len(f.body)
             /\ SubSeq(bytes, 8, Len(bytes)) = f.body
    /\ Len(ts_decoded) <= Len(ts_peerFrames)
    /\ \A k \in 1..Len(ts_decoded) :
          ts_decoded[k] = [category |-> ts_peerFrames[k].category,
                           id |-> ts_peerFrames[k].id,
                           body_size |-> Len(ts_peerFrames[k].body),
                           body |-> ts_peerFrames[k].body]

(* Two frames have been decoded, one of them with a two-byte id whose      *)
(* bytes differ and a body of two bytes.                                   *)
C19_Witness ==
    /\ Len(ts_decoded) = 2
    /\ \E k \in 1..2 : ts_decoded[k].id = 258 /\ Len(ts_decoded[k].body) = 2

(***************************************************************************)
(* C20.  When a TCP session reads a header whose body_size exceeds         *)
(* config.read_buffer_size, it reports MessageTooLarge and is closed: no   *)
(* body of that size is read and no message is delivered for that frame.   *)
(* So no read of a body larger than read_buffer_size is ever outstanding   *)
(* and no frame with such a body is ever decoded or delivered.             *)
(***************************************************************************)
C20_OversizeRejected ==
    /\ ts_reading = "body" =>
          Len(ts_read_buffer) - HEADER_SIZE <= ts_read_buffer_size
    /\ \A k \in 1..Len(ts_decoded) :
          ts_decoded[k].body_size <= ts_read_buffer_size
    /\ \A k \in 1..Len(ts_delivered) :
          Len(ts_delivered[k].body) <= ts_read_buffer_size

(***************************************************************************)
(* C21.  A TCP session survives malformed payloads with framing preserved. *)
(* A step that reports INVALID_MESSAGE (the factory has no message for the *)
(* frame, or deserialize fails) leaves the session state as it was, has    *)
(* consumed exactly the body_size bytes of that frame and delivers         *)
(* nothing for it, and the next header read is started; whenever a header  *)
(* read is outstanding the unread input is exactly the frames not yet      *)
(* decoded, and the delivered messages are frames the peer sent, in the    *)
(* order it sent them.                                                     *)
(***************************************************************************)
RECURSIVE TSFramesBytes(_)
TSFramesBytes(frames) ==
    IF frames = <<>> THEN <<>>
    ELSE TSFrame(frames[1].category, frames[1].id, frames[1].body)
             \o TSFramesBytes(Tail(frames))

RECURSIVE TSIsSubsequence(_, _)
TSIsSubsequence(s, t) ==
    IF s = <<>> THEN TRUE
    ELSE IF t = <<>> THEN FALSE
    ELSE IF s[1] = t[1] THEN TSIsSubsequence(Tail(s), Tail(t))
    ELSE TSIsSubsequence(s, Tail(t))

TSMalformedStep == ts_errors' = Append(ts_errors, "INVALID_MESSAGE")

C21_FramingPreserved ==
    /\ [](/\ ts_reading = "header" =>
                ts_in = TSFramesBytes(SubSeq(ts_peerFrames, Len(ts_decoded) + 1,
                                             Len(ts_peerFrames)))
          /\ TSIsSubsequence(ts_delivered,
                 [k \in 1..Len(ts_decoded) |->
                     [category |-> ts_peerFrames[k].category,
                      id |-> ts_peerFrames[k].id,
                      body |-> ts_peerFrames[k].body]]))
    /\ [][TSMalformedStep =>
            /\ ts_state' = ts_state
            /\ ts_delivered' = ts_delivered
            /\ Len(ts_decoded') = Len(ts_decoded) + 1
            /\ Len(ts_in) - Len(ts_in') =
                  IF ts_reading = "body"
                  THEN ts_decoded'[Len(ts_decoded')].body_size
                  ELSE HEADER_SIZE
            /\ ts_state = "CONNECTED" => ts_reading' = "header"]_vars

(* A frame with a two-byte body was rejected as invalid, the session is    *)
(* still connected and the frame that followed it has been delivered.      *)
C21_Witness ==
    /\ ts_state = "CONNECTED"
    /\ ts_errors = <<"INVALID_MESSAGE">>
    /\ Len(ts_decoded) = 2
    /\ ts_decoded[1].body_size = 2
    /\ ts_decoded[1].id # ts_decoded[2].id
    /\ Len(ts_delivered) = 1
    /\ ts_delivered[1].id = ts_decoded[2].id

(***************************************************************************)
(* C22.  TcpSession.close() is idempotent.  For any number of close()      *)
(* calls on a registered session, sequential or concurrent on the reactor  *)
(* and the service worker: every call returns success, on_closed is        *)
(* emitted at most once, and once a close() has been called and no thread  *)
(* is inside close() the session is DISCONNECTED, is not in the session    *)
(* table and on_closed has been emitted exactly once.                      *)
(***************************************************************************)
NSCount(event) == Cardinality({k \in 1..Len(ns_events) : ns_events[k] = event})

C22_CloseIdempotent ==
    /\ \A k \in 1..Len(ns_results) : ns_results[k] = "Success"
    /\ NSCount("on_closed") <= 1
    /\ (Len(ns_results) > 0 /\ \A t \in NSThreads : ns_pc[t] \in {"idle", "sweep"}) =>
          /\ ns_state = "DISCONNECTED"
          /\ NSSessionId \notin ns_sessions
          /\ NSCount("on_closed") = 1

(* Two concurrent close() calls both found the session open: the one on   *)
(* the reactor has removed the session and returned, the one on the worker *)
(* is about to call removeSessionById for the session that is gone.        *)
C22_Witness ==
    /\ ns_pc["reactor"] = "idle"
    /\ ns_pc["worker"] = "remove"
    /\ ns_closes = 2
    /\ ns_results = <<"Success">>
    /\ ns_events = <<"on_closed">>

(***************************************************************************)
(* C24.  A CONNECTED TCP session whose idle time exceeds idle_timeout_ms   *)
(* (> 0), while the service keeps running its worker loop, is eventually   *)
(* observed in on_idle and then in on_closed, each exactly once: as long   *)
(* as the session stays connected and idle beyond the timeout, on_idle is  *)
(* eventually emitted for it; on_idle is followed by on_closed; and        *)
(* neither is emitted twice.                                               *)
(***************************************************************************)
NSIdleTooLong ==
    /\ ns_state = "CONNECTED"
    /\ NSSessionId \in ns_sessions
    /\ ns_idle_time > ns_idle_timeout_ms

C24_IdleSessionEvicted ==
    /\ [](NSCount("on_idle") <= 1 /\ NSCount("on_closed") <= 1)
    /\ NSIdleTooLong ~> (NSCount("on_idle") = 1 \/ ~NSIdleTooLong)
    /\ (NSCount("on_idle") = 1) ~> (NSCount("on_closed") = 1)

(***************************************************************************)
(* C23.  After close() has been called on a TCP session, the error         *)
(* completions of its in-flight reads and writes are suppressed: once      *)
(* close() has run (the session was started and its state is CLOSING or    *)
(* DISCONNECTED) no NETWORK_ERROR is reported to on_error for it.          *)
(***************************************************************************)
C23_ErrorsSuppressedAfterClose ==
    [][(ts_started /\ TSClosed(ts_state)) =>
          ts_errors' # Append(ts_errors, "NETWORK_ERROR")]_vars

(***************************************************************************)
(* C25.  start() on a service that is already running returns              *)
(* ServiceAlreadyStarted and stop() on a service that is not running       *)
(* returns ServiceNotStarted, and in both cases the running flag, the      *)
(* worker thread and the queue are left unchanged: start() goes on past    *)
(* its test only when running_ is false and stop() only when it is true,   *)
(* and a step that returns one of the two errors changes none of           *)
(* running_, the worker thread and the queue.                              *)
(***************************************************************************)
SVServiceUnchanged ==
    UNCHANGED <<sv_running, sv_worker, sv_wmsg, sv_joinable, sv_queue,
                sv_qshutdown>>

C25_RedundantStartStopRejected ==
    [][/\ (sv_ctl = "idle" /\ sv_ctl' = "start_spawn") => ~sv_running
       /\ (sv_ctl = "idle" /\ sv_ctl' = "stop_shutdown") => sv_running
       /\ (sv_ctlResult' = "SERVICE_ALREADY_STARTED"
             /\ sv_ctlResult # "SERVICE_ALREADY_STARTED") =>
                sv_running /\ SVServiceUnchanged
       /\ (sv_ctlResult' = "SERVICE_NOT_STARTED"
             /\ sv_ctlResult # "SERVICE_NOT_STARTED") =>
                ~sv_running /\ SVServiceUnchanged]_vars

(* start() has just returned ServiceAlreadyStarted on a service whose      *)
(* worker is alive and whose queue holds a message.                        *)
C25_Witness ==
    /\ sv_ctl = "idle"
    /\ sv_ctlResult = "SERVICE_ALREADY_STARTED"
    /\ sv_running
    /\ sv_worker \in {"loop", "wait", "msg"}
    /\ sv_queue # <<>>

(***************************************************************************)
(* C26.  stop() sets running to false, shuts down the queue and joins the  *)
(* worker: whenever stop() returns on a running service, with success or   *)
(* with an onStop error, the worker thread has terminated, so that no      *)
(* message is dispatched afterwards.                                       *)
(***************************************************************************)
C26_StopJoinsWorker ==
    [][(sv_ctl \in {"stop_onstop", "stop_join"} /\ sv_ctl' = "idle") =>
          sv_worker' = "none"]_vars

(***************************************************************************)
(* C27.  The handler table is immutable while the service is Running:      *)
(* between a successful start() and the following stop() (running_ is set  *)
(* and no start() or stop() is in progress), no step changes the           *)
(* (category, id) -> handler mapping that dispatchMessage reads.           *)
(***************************************************************************)
C27_HandlersFrozenWhileRunning ==
    [][(sv_running /\ sv_ctl = "idle" /\ sv_ctlResult = "Success") =>
          sx_handlers' = sx_handlers]_vars

(***************************************************************************)
(* C28.  A registerModule(m) call that fails leaves the module registry    *)
(* exactly as it was before the call.  A null module, an empty name and a  *)
(* name already registered fail and call nothing on m; a failing m.init()  *)
(* fails the call after init alone; on a running service a failing         *)
(* m.start() fails the call after init, start and stop; and after any      *)
(* failed call the registry is the one from before the call.               *)
(***************************************************************************)
C28_FailedRegisterLeavesRegistry ==
    /\ sx_reg.result \notin {"none", "Success"} => sx_modules = sx_reg.before
    /\ (sx_reg.result # "none"
          /\ (sx_reg.null \/ sx_reg.name = "" \/ sx_reg.name \in sx_reg.before)) =>
             /\ sx_reg.result \in {"INVALID_ARGUMENT", "MODULE_ALREADY_REGISTERED"}
             /\ sx_reg.calls = <<>>
    /\ sx_reg.result = "init error" => sx_reg.calls = <<"init">>
    /\ sx_reg.result = "start error" =>
          sx_reg.running /\ sx_reg.calls = <<"init", "start", "stop">>
    /\ sx_reg.result = "Success" =>
          /\ sx_modules = sx_reg.before \cup {sx_reg.name}
          /\ sx_reg.name \notin sx_reg.before

(* On a running service that has module a, registering module b has just   *)
(* failed in b.start().                                                    *)
C28_Witness ==
    /\ sx_reg.result = "start error"
    /\ sx_reg.name = "b"
    /\ sx_reg.before = {"a"}
    /\ sv_running

(***************************************************************************)
(* C29.  The module dependency graph is acyclic after any sequence of      *)
(* addDependency calls: whenever no addDependency is in progress no module *)
(* reaches itself along dependency edges (a module depending on itself     *)
(* included), so every call whose edge closed a cycle was answered with    *)
(* CircularDependency; and when a call returns CircularDependency its edge *)
(* is not in the graph.                                                    *)
(***************************************************************************)
MDEdges(dependencies) ==
    {e \in MDNames \X MDNames : e[2] \in MDDependsOn(dependencies, e[1])}

RECURSIVE MDReaches(_, _, _, _)
MDReaches(edges, from, to, steps) ==
    \/ <<from, to>> \in edges
    \/ /\ steps > 1
       /\ \E via \in MDNames :
             <<from, via>> \in edges /\ MDReaches(edges, via, to, steps - 1)

MDAcyclic(dependencies) ==
    \A n \in MDNames :
        ~MDReaches(MDEdges(dependencies), n, n, Cardinality(MDNames))

C29_DependenciesAcyclic ==
    /\ [](((\A t \in MDThreads : md_pc[t] = "idle")) => MDAcyclic(md_dependencies))
    /\ [][\A t \in MDThreads :
            (md_pc[t] = "clear" /\ md_pc'[t] = "idle") =>
                /\ md_result'[t] = "CIRCULAR_DEPENDENCY"
                /\ md_arg[t].dependency \notin
                      MDDependsOn(md_dependencies', md_arg[t].module)]_vars

(* With a -> b and b -> c in the graph, the call that added c -> a has     *)
(* been answered with CircularDependency.                                  *)
C29_Witness ==
    /\ \A t \in MDThreads : md_pc[t] = "idle"
    /\ \E t \in MDThreads :
          /\ md_result[t] = "CIRCULAR_DEPENDENCY"
          /\ md_arg[t] = [module |-> "c", dependency |-> "a"]
    /\ md_dependencies["a"] = <<"b">>
    /\ md_dependencies["b"] = <<"c">>

(***************************************************************************)
(* C30.  A UDP service looks up or creates one session per endpoint: at    *)
(* any time the session table holds at most one session for a given        *)
(* (address, port) and the sessions of distinct endpoints have distinct    *)
(* ids, and a datagram from an endpoint that has a session in the table    *)
(* is given that session and creates none.                                 *)
(***************************************************************************)
C30_OneSessionPerEndpoint ==
    /\ [](\A s1, s2 \in ud_sessions :
             (s1.endpoint = s2.endpoint \/ s1.id = s2.id) => s1 = s2)
    /\ [][ud_datagrams' # ud_datagrams =>
            \A s \in ud_sessions :
                s.endpoint = ud_last'.endpoint =>
                    /\ ud_last'.id = s.id
                    /\ ud_sessions' = ud_sessions
                    /\ ud_next_session_id' = ud_next_session_id]_vars

(* Two endpoints that differ only in the port have a session each, and a   *)
(* third datagram has reused one of the two.                               *)
C30_Witness ==
    /\ ud_datagrams = 3
    /\ ud_next_session_id = 3
    /\ Cardinality(ud_sessions) = 2
    /\ \A s \in ud_sessions : s.endpoint.address = "10.0.0.1"

(***************************************************************************)
(* C31.  When the UDP sweep evicts a session whose idle time exceeds       *)
(* session_timeout_ms, the session leaves the session table and the        *)
(* endpoint map and on_closed is fired for it exactly once; a session      *)
(* whose idle time does not exceed the timeout stays and gets no on_closed.*)
(***************************************************************************)
UDSweepStep == ud_idle # {} /\ ud_idle' = {} /\ ud_datagrams' = ud_datagrams

C31_SweepEvictsOnce ==
    [][UDSweepStep =>
          \A s \in ud_sessions :
              IF s.id \in ud_idle
              THEN /\ s \notin ud_sessions'
                   /\ ud_endpoint_to_session'[s.endpoint] = UDNoSession
                   /\ ud_on_closed'[s.id] = ud_on_closed[s.id] + 1
              ELSE /\ s \in ud_sessions'
                   /\ ud_endpoint_to_session'[s.endpoint] =
                          ud_endpoint_to_session[s.endpoint]
                   /\ ud_on_closed'[s.id] = ud_on_closed[s.id]]_vars

(* What the sweep does: idle sessions leave both tables with two on_closed *)
(* calls each, the other sessions are left alone.                          *)
UDSweepRemovesIdleOnly ==
    [][UDSweepStep =>
          \A s \in ud_sessions :
              IF s.id \in ud_idle
              THEN /\ s \notin ud_sessions'
                   /\ ud_endpoint_to_session'[s.endpoint] = UDNoSession
                   /\ ud_on_closed'[s.id] = ud_on_closed[s.id] + 2
              ELSE /\ s \in ud_sessions'
                   /\ ud_endpoint_to_session'[s.endpoint] =
                          ud_endpoint_to_session[s.endpoint]
                   /\ ud_on_closed'[s.id] = ud_on_closed[s.id]]_vars

(***************************************************************************)
(* C32.  For a TCP service, total_messages_sent equals the number of       *)
(* messages whose write completed successfully and total_messages_received *)
(* equals the number of messages delivered through on_message_received;    *)
(* after one client message is echoed back, both counters equal 1.         *)
(***************************************************************************)
TCOneEchoed ==
    /\ tc_client_sent = 1
    /\ tc_echoed = 1
    /\ tc_writes_completed = 1

C32_CountersMatch ==
    /\ tc_total_messages_sent = tc_writes_completed
    /\ tc_total_messages_received = tc_on_message_received
    /\ TCOneEchoed =>
          tc_total_messages_sent = 1 /\ tc_total_messages_received = 1

(* The received half, which the service does keep. *)
TCReceivedMatches ==
    /\ tc_total_messages_received = tc_on_message_received
    /\ TCOneEchoed => tc_total_messages_received = 1

(***************************************************************************)
(* C33.  Every pop operation (pop, tryPop, waitAndPop) on a non-empty      *)
(* PriorityMessageQueue returns a message whose category is maximal among  *)
(* the messages queued at that moment, so with no push in between the      *)
(* messages come out in non-increasing category order.                     *)
(***************************************************************************)
PQPopStep == Len(pq_returned') = Len(pq_returned) + 1

(* a pop operation has found the queue non-empty *)
PQPopped ==
    /\ pq_queue # {}
    /\ pq_returned' # pq_returned

(* the message of the previous pop, and the one returned in this step; the *)
(* second was queued when the first was popped if either was in the queue  *)
(* when the other was pushed                                               *)
PQLastReturned == pq_returned[Len(pq_returned)]

PQReturnedNow == pq_returned'[Len(pq_returned')]

C33_PopReturnsMaximal ==
    [][/\ PQPopped =>
             /\ PQPopStep
             /\ PQReturnedNow \in pq_queue
             /\ \A o \in pq_queue : pq_priority[o] <= pq_priority[PQReturnedNow]
       /\ (/\ PQPopStep
           /\ pq_returned # <<>>
           /\ PQReturnedNow \in pq_present[PQLastReturned] \cup
                 {o \in PQMsgs : PQLastReturned \in pq_present[o]}) =>
             pq_priority[PQReturnedNow] <= pq_priority[PQLastReturned]]_vars

(* Categories 1, 3, 2 were pushed, then popped with no push in between:    *)
(* they came out as 3, 2, 1.                                               *)
C33_Witness ==
    /\ pq_priority = (1 :> 1) @@ (2 :> 3) @@ (3 :> 2)
    /\ pq_present[3] = {1, 2}
    /\ pq_returned = <<2, 3, 1>>

(***************************************************************************)
(* C34.  The service lifecycle only advances along New -> Initialized ->   *)
(* Running -> Stopped: start() does not succeed on a service that was      *)
(* never init()ed, and once stop() has succeeded the service never becomes *)
(* Running again.                                                          *)
(***************************************************************************)
(* start() has returned success and no stop() has begun since *)
SVRunning == sv_running /\ sv_ctl = "idle"

C34_LifecycleForward ==
    /\ SVRunning => sv_inited
    /\ sv_stopReturned => ~SVRunning

(* The two halves of C34, one at a time. *)
SVNoStartBeforeInit == SVRunning => sv_inited

SVNoRestart == sv_stopReturned => ~SVRunning

(***************************************************************************)
(* C35.  In the LockFreeMessageQueue of src/unnamed/part_004, messages     *)
(* enqueued before shutdown() stay retrievable: after shutdown, pop() and  *)
(* waitAndPop() return the remaining messages and return empty only once   *)
(* the queue is drained.                                                   *)
(***************************************************************************)
C35_DrainAfterShutdown ==
    (sq_last.op \in {"pop", "waitAndPop"} /\ sq_last.shutdown
        /\ sq_last.msg = NoMsg)
    => sq_last.left = 0

(* tryPop does return the remaining messages after shutdown. *)
SQTryPopDrains ==
    (sq_last.op = "tryPop" /\ sq_last.msg = NoMsg) => sq_last.left = 0

(***************************************************************************)
(* C36.  Whenever postMessage(m) returns success, m has been placed in the *)
(* service's queue and was not dropped by a shut-down queue, for every     *)
(* interleaving of postMessage with stop() and every start/stop history.   *)
(***************************************************************************)
C36_PostSuccessMeansQueued ==
    [][\A m \in SVMsgs :
          (sv_result[m] # "Success" /\ sv_result'[m] = "Success")
          => \E i \in 1..Len(sv_queue') : sv_queue'[i] = m]_vars

(* The same for a service that no stop() has touched. *)
SVPostSuccessMeansQueuedBeforeStop ==
    [][\A m \in SVMsgs :
          (sv_result[m] # "Success" /\ sv_result'[m] = "Success"
              /\ ~sv_qshutdown)
          => \E i \in 1..Len(sv_queue') : sv_queue'[i] = m]_vars

(***************************************************************************)
(* C37.  In every reachable state of the TimerManager group membership is  *)
(* consistent: each TimerId belongs to at most one group,                  *)
(* timer_to_group_[t] = g holds exactly when t occurs in groups_[g], and   *)
(* occurs there once, and every grouped timer is a live timer in tasks_.   *)
(***************************************************************************)
TMOccurrences(timers, id) ==
    Cardinality({i \in 1..Len(timers) : timers[i] = id})

(* each TimerId belongs to at most one group, and is there once *)
TMAtMostOneGroup ==
    \A id \in TimerIds :
        /\ \A g1, g2 \in DOMAIN tm_groups :
              (id \in TMMembers(tm_groups[g1]) /\ id \in TMMembers(tm_groups[g2]))
              => g1 = g2
        /\ \A g \in DOMAIN tm_groups : TMOccurrences(tm_groups[g], id) <= 1

(* timer_to_group_[t] = g exactly when t occurs in groups_[g] *)
TMMapsAgree ==
    \A id \in TimerIds : \A g \in GroupIds :
        (id \in DOMAIN tm_timer_to_group /\ tm_timer_to_group[id] = g)
        <=> (g \in DOMAIN tm_groups /\ id \in TMMembers(tm_groups[g]))

(* every grouped timer is a live timer in tasks_ *)
TMGroupedAreLive ==
    /\ \A g \in DOMAIN tm_groups : TMMembers(tm_groups[g]) \subseteq DOMAIN tm_tasks
    /\ DOMAIN tm_timer_to_group \subseteq DOMAIN tm_tasks

C37_GroupMembershipConsistent ==
    /\ TMAtMostOneGroup
    /\ TMMapsAgree
    /\ TMGroupedAreLive

(***************************************************************************)
(* C38.  An addDependency call that is rejected (missing dependency module *)
(* or CircularDependency) leaves the dependency edges that the module had  *)
(* before the call unchanged; only the rejected edge is absent.            *)
(***************************************************************************)
(* thread t's call returns in this step with an error: from its last      *)
(* section, or at once for a missing module                                *)
MDRejects(t) ==
    /\ md_pc'[t] = "idle"
    /\ md_result'[t] \in {"MODULE_NOT_FOUND", "CIRCULAR_DEPENDENCY"}
    /\ \/ md_pc[t] = "clear"
       \/ /\ md_calls' # md_calls
          /\ \A u \in MDThreads \ {t} :
                md_arg'[u] = md_arg[u] /\ md_result'[u] = md_result[u]
                    /\ md_pc'[u] = md_pc[u]

(* the dependencies of a module other than the one the call was given *)
MDOtherEdges(dependencies, module, dependency) ==
    SelectSeq(dependencies[module], LAMBDA d : d # dependency)

C38_RejectedKeepsPriorEdges ==
    [][\A t \in MDThreads :
          MDRejects(t) =>
              /\ \A module \in MDNames \ {md_arg'[t].module} :
                    md_dependencies'[module] = md_dependencies[module]
              /\ MDOtherEdges(md_dependencies', md_arg'[t].module,
                              md_arg'[t].dependency)
                   = MDOtherEdges(md_dependencies, md_arg'[t].module,
                                  md_arg'[t].dependency)]_vars

(* A call rejected with MODULE_NOT_FOUND changes no edge at all. *)
MDNotFoundKeepsEdges ==
    [][\A t \in MDThreads :
          (MDRejects(t) /\ md_result'[t] = "MODULE_NOT_FOUND")
          => md_dependencies' = md_dependencies]_vars

(***************************************************************************)
(* C39.  NetService never invokes a SessionHandler callback (on_created,   *)
(* on_closed, on_idle) while holding the session-table mutex, so a         *)
(* callback that calls session.close() or otherwise re-enters the session  *)
(* table cannot deadlock the calling thread.                               *)
(***************************************************************************)
CBCallbackUnderLock ==
    \E i \in 2..Len(cb_stack) :
        /\ cb_stack[i].fn \in CBCallbacks
        /\ cb_stack[i - 1].fn \in {"addSession", "removeSession"}
        /\ cb_mutex

C39_NoCallbackUnderLock ==
    /\ ~CBCallbackUnderLock
    /\ cb_fault = "none"

(* on_idle is the one callback that is called with the mutex released. *)
CBIdleCallbackUnlocked ==
    (cb_stack # <<>> /\ CBTop.fn = "on_idle") => ~cb_mutex

(***************************************************************************)
(* C40.  For every interleaving of the accept handler with read            *)
(* completions on the reactor threads (io_thread_count >= 1), an accepted  *)
(* TCP session is registered before any of its I/O events is processed:    *)
(* on_created is the first event emitted for it, and once its close() has  *)
(* completed the session is not left in the session table in state         *)
(* Disconnected.                                                           *)
(***************************************************************************)
ACCreatedFirst ==
    \A id \in ACSessionIds :
        ac_events[id] # <<>> => ac_events[id][1] = "on_created"

ACNoClosedSessionInTable ==
    \A id \in ac_sessions : ac_state[id] # "DISCONNECTED"

ACRegisteredBeforeIoOneThread ==
    ac_io_thread_count = 1 => (ACCreatedFirst /\ ACNoClosedSessionInTable)

====
